---- MODULE Spec2Model ----
(***************************************************************************)
(* Request orchestration layer of the Ref-Lex web extension:               *)
(*   - RateLimiter          (src/src/shared/rate-limiter.ts)               *)
(*   - RequestDeduplicator  (src/src/shared/request-deduplicator.ts)       *)
(*   - apiRequest and the read endpoints (src/src/background/api.ts)       *)
(* Every await of the source is a suspension point: an action runs one     *)
(* handler or one continuation from its resumption to its next await.      *)
(***************************************************************************)
EXTENDS Integers, Sequences, FiniteSets, TLC

(* ------------------------------ bounds --------------------------------- *)
\* number of throttle() calls issued over a run
MaxRequests == 3
\* number of clock advances over a run
MaxTicks == 3
\* number of clock advances over a run in which reset() is never called
MaxRunTicks == 6
\* number of reset() calls over a run
MaxResets == 1
\* number of updateFromHeaders() calls over a run
MaxUpdates == 1
\* number of dedupe() calls over a run
MaxCallers == 3
\* number of clear() calls over a run
MaxClears == 1
\* number of top-level apiRequest() calls over a run
MaxApiCalls == 1
\* number of read-endpoint calls over a run
MaxReadCallers == 2
\* number of write-endpoint calls over a run of concurrent writes
MaxWrites == 2
\* number of runtime messages over a run
MaxMessages == 2
\* number of fetchAndCacheProjects / fetchAndCacheCategories calls over a run
MaxFetchers == 2
\* number of steps of the clock over a run of the cache
MaxElapses == 3
\* number of clearAuthState() calls over a run
MaxAuthClears == 1
\* number of ADD_REFERENCE messages over a run
MaxAdds == 2
\* number of calls of the debounced function over a run
MaxDebounceCalls == 4
\* number of steps of the clock before the last call of the debounced function
MaxDebounceTicks == 4

(* ------------------- RateLimiter configuration ------------------------- *)
\* new RateLimiter({requestsPerMinute, maxQueueSize, minRequestDelay})
requestsPerMinute == 2
maxTokens == requestsPerMinute
MsPerMinute == 60000
DelayedThresholdMs == 100

\* the clock advances in steps of half the token period
TickMs == MsPerMinute \div (2 * requestsPerMinute)
\* Date.now() at construction; far larger than any minRequestDelay
StartTime == TickMs
\* configured values of minRequestDelay
MinDelays == {0, TickMs}
\* configured values of maxQueueSize
QueueSizes == {2, 3}
\* the priorities the callers pass to throttle(), call by call
PlanCycle == [i \in 1..MaxRequests |-> <<1, 5, 3>>[((i - 1) % 3) + 1]]
PlanEqual == [i \in 1..MaxRequests |-> 3]
PlanTies == [i \in 1..MaxRequests |-> IF i % 2 = 1 THEN 3 ELSE 5]
Priorities == {1, 3, 5}
PriorityPlans == {PlanCycle, PlanEqual, PlanTies}
\* values of the X-RateLimit-Limit / X-RateLimit-Remaining headers
HeaderLimits == {20}
HeaderRemainings == {0, 1, 2}
\* X-RateLimit-Remaining values of the backend's responses
ResponseRemainings == {1}
\* values of the X-RateLimit-Reset header (seconds)
HeaderResets == {60}
\* headers.get(name) = null
Absent == -1
\* a header value that parseInt maps to NaN
Malformed == -2
\* the three rate-limit headers of a response: limit, remaining, reset
NoHeaders == <<Absent, Absent, Absent>>
\* responses with all three headers or with none
ResponseHeaders ==
    {<<l, r, s>> : l \in HeaderLimits, r \in ResponseRemainings, s \in HeaderResets}
        \cup {NoHeaders}
\* responses with any of the headers missing, and with a reset that is no number
AnyHeaders ==
    {<<l, r, s>> : l \in HeaderLimits \cup {Absent}, r \in HeaderRemainings \cup {Absent},
                   s \in HeaderResets \cup {Absent, Malformed}}

MaxDrainers == MaxResets + 1
\* whether the first operation the drainer calls, in one run of the loop from
\* an await to the next, throws instead of returning a promise
Throws == BOOLEAN

\* the keys the read endpoints pass to dedupe()
Keys == {"auth:check", "projects:list"}
\* response statuses of the backend
Statuses == {200, 400, 401, 403, 429, 500}
\* values of the X-CSRF-Token response header
Tokens == {2}
\* response statuses of the backend in the runs about rate-limit headers
HeaderStatuses == {200, 401, 500}
\* response statuses of the backend in the runs of concurrent writes
WriteStatuses == {200, 401}
\* the message an error response's body supplies: none, one, one that mentions 'email'
ErrorBodies == {"none", "server", "serverEmail"}
\* response.statusText
StatusTexts == {"statusText", ""}
\* ways the endpoint fetch rejects: timeout, fetch TypeError, anything else
FetchFailures == {"timeout", "network", "other"}

VARIABLES
    now,              \* Date.now()
    minRequestDelay,  \* RateLimiter.minRequestDelay (readonly, set by the constructor)
    maxQueueSize,     \* RateLimiter.maxQueueSize (readonly, set by the constructor)
    tokens,           \* RateLimiter.tokens
    lastRefill,       \* RateLimiter.lastRefill
    queue,            \* RateLimiter.queue: the QueuedRequest objects, in array order
    processing,       \* RateLimiter.processing
    totalRequests,    \* RateLimiter.totalRequests
    delayedRequests,  \* RateLimiter.delayedRequests
    lastRequestTime,  \* RateLimiter.lastRequestTime
    drainers,         \* activations of processQueue and the await each is suspended on
    reqs,             \* every throttle() call: the state of the promise it returned
    plan,             \* the priority each throttle() call is made with
    startLog,         \* history: the operations started, in order, with the start time
    resetCount,       \* history: number of reset() calls
    updateCount,      \* history: number of updateFromHeaders() calls
    ev                \* history: the call or continuation that ran last, with what it saw

VARIABLES
    pending,          \* RequestDeduplicator.pending: key -> registered promise (0: no entry)
    requestCounts,    \* RequestDeduplicator.requestCounts (0: no entry)
    ops,              \* every promise a supplier returned, and the .finally() promise on it
    callers,          \* every dedupe() call: the promise it got and what it settled with
    cleared,          \* history: clear() was called while an operation for the key was in flight
    clearCount        \* history: number of clear() calls

VARIABLES
    csrfToken,        \* api.ts csrfToken (0: null)
    storedCsrf,       \* browser.storage.local[CSRF_TOKEN] (0: absent)
    rateLimitInfo,    \* browser.storage.local[RATE_LIMIT_INFO] (NoRateLimit: absent)
    calls             \* every top-level apiRequest() call and the await it is suspended on

VARIABLES
    msgs              \* service worker: every runtime message received and how far it is handled

VARIABLES
    cachedProjects,   \* browser.storage.local[CACHED_PROJECTS] (NoEntry: absent)
    cachedCategories, \* browser.storage.local[CACHED_CATEGORIES]: project -> entry
    fetchers,         \* every fetchAndCacheProjects / fetchAndCacheCategories call
    authCleared,      \* history: the clearAuthState() calls and what the last one left behind
    adds              \* every handleAddReference call and the await it is suspended on

VARIABLES
    timeoutId,        \* debounceAsync: timeoutId of the closure (0: null)
    pendingPromise,   \* debounceAsync: pendingPromise of the closure (0: null)
    timers,           \* the setTimeout timers that are scheduled: id -> due time
    promises,         \* every promise the debounced function created
    debouncedCalls    \* history: every call of the debounced function and the promise it returned

extVars == <<cachedProjects, cachedCategories, fetchers, authCleared, adds,
             timeoutId, pendingPromise, timers, promises, debouncedCalls>>
workerVars == <<msgs, extVars>>
dedupVars == <<pending, requestCounts, ops, callers, cleared, clearCount>>
apiVars == <<csrfToken, storedCsrf, rateLimitInfo, calls>>

limiterVars == <<minRequestDelay, maxQueueSize, tokens, lastRefill, queue, processing, totalRequests,
                 delayedRequests, lastRequestTime, drainers, reqs, plan, startLog,
                 resetCount, updateCount>>

vars == <<now, ev, limiterVars, dedupVars, apiVars, workerVars>>

\* the last step: op names it, id is the request (or the header limit) it concerns,
\* a, b, c are what it saw:
\*   throttle: a = queue.length at the call, b = 1 accepted / 0 rejected
\*   settle:   a = 1 the operation resolved / 0 it failed,
\*             b = 1 the caller's promise resolved / 0 it rejected
\*   update:   id = limit, a = remaining, b = tokens before the call
\* t is the request whose operation threw when the step called it (0: none),
\* tb = 1 its caller's promise resolved / 0 it rejected
Ev(op, id, a, b, c) ==
    [op |-> op, id |-> id, a |-> a, b |-> b, c |-> c, t |-> 0, tb |-> 0]
NoEvent == Ev("none", 0, 0, 0, 0)
IdleDrainer == [pc |-> "idle", wakeAt |-> 0, req |-> 0]

Min(a, b) == IF a <= b THEN a ELSE b

(* ----------------------------- RateLimiter ----------------------------- *)

\* constructor
LimiterInit ==
    /\ minRequestDelay \in MinDelays
    /\ maxQueueSize \in QueueSizes
    /\ tokens = maxTokens
    /\ lastRefill = StartTime
    /\ queue = <<>>
    /\ processing = FALSE
    /\ totalRequests = 0
    /\ delayedRequests = 0
    /\ lastRequestTime = 0
    /\ drainers = [d \in 1..MaxDrainers |-> IdleDrainer]
    /\ reqs = <<>>
    /\ plan \in PriorityPlans
    /\ startLog = <<>>
    /\ resetCount = 0
    /\ updateCount = 0

\* refillTokens: tokensToAdd = elapsed * requestsPerMinute / 60000, applied when >= 1
TokensToAddFloor(lr, t) == ((t - lr) * requestsPerMinute) \div MsPerMinute
\* mutant: the refill is applied whatever the elapsed time is worth
RefillAppliesAlways(lr, t) == TRUE

\* refillTokens line 184: tokensToAdd >= 1
RefillApplies(lr, t) == (t - lr) * requestsPerMinute >= MsPerMinute
RefillTokens(tok, lr, t) ==
    IF RefillApplies(lr, t) THEN Min(maxTokens, tok + TokensToAddFloor(lr, t)) ELSE tok
RefillLast(lr, t) == IF RefillApplies(lr, t) THEN t ELSE lr

\* Math.ceil(1 / (requestsPerMinute / 60000))
TimeForNextToken == (MsPerMinute + requestsPerMinute - 1) \div requestsPerMinute

\* mutant: an unstable sort that puts the later of two equal priorities first
RECURSIVE InsertBeforeEquals(_, _)
InsertBeforeEquals(s, x) ==
    IF s = <<>> THEN <<x>>
    ELSE IF Head(s).priority > x.priority
         THEN <<Head(s)>> \o InsertBeforeEquals(Tail(s), x)
         ELSE <<x>> \o s

\* queue.sort((a, b) => b.priority - a.priority): stable, highest priority first
RECURSIVE InsertByPriority(_, _)
InsertByPriority(s, x) ==
    IF s = <<>> THEN <<x>>
    ELSE IF Head(s).priority >= x.priority
         THEN <<Head(s)>> \o InsertByPriority(Tail(s), x)
         ELSE <<x>> \o s
\* mutant: the sort is left out, the queue stays in arrival order
SortQueueSkipped(q) == q

RECURSIVE SortQueue(_)
SortQueue(q) ==
    IF q = <<>> THEN <<>>
    ELSE InsertByPriority(SortQueue(SubSeq(q, 1, Len(q) - 1)), q[Len(q)])

\* mutant: the catch block swallows the error and resolves the caller
CallerResolvesAlways(ok) == TRUE

\* processQueue lines 163-168: request.resolve(result) when the operation
\* succeeded, request.reject(error) when it threw or rejected
CallerResolves(ok) == ok

\* the fields of the limiter that only processQueue writes, as they are when a
\* continuation of processQueue is resumed
Fields ==
    [tokens |-> tokens, lastRefill |-> lastRefill, totalRequests |-> totalRequests,
     delayedRequests |-> delayedRequests, lastRequestTime |-> lastRequestTime,
     startLog |-> startLog]

\* the activation stops: c holds the values it leaves in those fields
Keep(c) ==
    /\ tokens' = c.tokens
    /\ lastRefill' = c.lastRefill
    /\ totalRequests' = c.totalRequests
    /\ delayedRequests' = c.delayedRequests
    /\ lastRequestTime' = c.lastRequestTime
    /\ startLog' = c.startLog

RECURSIVE LoopTop(_, _, _, _, _, _, _)

\* processQueue lines 142-168: sort, shift, consume a token, call request.fn()
\* and suspend on its promise; when request.fn() throws (t: it does) the catch
\* block rejects the caller and the loop goes on. d: the activation; q, rq,
\* proc, c: the values of queue, reqs, processing and the other fields at this
\* point; e: the record of the step
Dispatch(d, q, rq, proc, c, e, t) ==
    \E sorted \in {SortQueue(q)} :
    IF sorted = <<>>
    THEN \* shift() returned undefined: break, then processing = false
         /\ ~t
         /\ queue' = sorted
         /\ reqs' = rq
         /\ processing' = FALSE
         /\ drainers' = [drainers EXCEPT ![d] = IdleDrainer]
         /\ Keep(c)
         /\ ev' = e
    ELSE \E r \in {Head(sorted)} :
         \E s \in {[c EXCEPT !.tokens = @ - 1,
                             !.lastRequestTime = now,
                             !.totalRequests = @ + 1,
                             !.delayedRequests =
                                 IF now - r.timestamp > DelayedThresholdMs THEN @ + 1 ELSE @,
                             !.startLog = Append(@, [id |-> r.id, at |-> now])]} :
             IF t
             THEN LoopTop(d, Tail(sorted), [rq EXCEPT ![r.id].st = "settled"], proc, s,
                          [e EXCEPT !.t = r.id,
                                    !.tb = IF CallerResolves(FALSE) THEN 1 ELSE 0],
                          FALSE)
             ELSE /\ queue' = Tail(sorted)
                  /\ reqs' = [rq EXCEPT ![r.id].st = "running"]
                  /\ processing' = proc
                  /\ drainers' = [drainers EXCEPT ![d] =
                                     [pc |-> "exec", wakeAt |-> 0, req |-> r.id]]
                  /\ Keep(s)
                  /\ ev' = e

\* mutant: the loop is left without looking at the queue
QueueDrainedAlways(q) == TRUE

\* processQueue line 118: the loop condition queue.length > 0 fails
QueueDrained(q) == Len(q) = 0

\* processQueue lines 118-140: the head of the while loop, up to its first await
LoopTop(d, q, rq, proc, c, e, t) ==
    IF QueueDrained(q)
    THEN \* loop exit, line 171
         /\ ~t
         /\ processing' = FALSE
         /\ drainers' = [drainers EXCEPT ![d] = IdleDrainer]
         /\ queue' = q
         /\ reqs' = rq
         /\ Keep(c)
         /\ ev' = e
    ELSE \E r \in {[c EXCEPT !.tokens = RefillTokens(c.tokens, c.lastRefill, now),
                             !.lastRefill = RefillLast(c.lastRefill, now)]} :
             IF r.tokens < 1
             THEN /\ ~t
                  /\ queue' = q
                  /\ reqs' = rq
                  /\ processing' = proc
                  /\ drainers' = [drainers EXCEPT ![d] =
                        [pc |-> "sleepToken", wakeAt |-> now + TimeForNextToken, req |-> 0]]
                  /\ Keep(r)
                  /\ ev' = e
             ELSE IF minRequestDelay > 0 /\ now - c.lastRequestTime < minRequestDelay
             THEN /\ ~t
                  /\ queue' = q
                  /\ reqs' = rq
                  /\ processing' = proc
                  /\ drainers' = [drainers EXCEPT ![d] =
                        [pc |-> "sleepDelay",
                         wakeAt |-> now + (minRequestDelay - (now - c.lastRequestTime)),
                         req |-> 0]]
                  /\ Keep(r)
                  /\ ev' = e
             ELSE Dispatch(d, q, rq, proc, r, e, t)

\* the activation record a new processQueue call runs in
FreeDrainer == CHOOSE d \in 1..MaxDrainers :
                  /\ drainers[d].pc = "idle"
                  /\ \A e \in 1..MaxDrainers : drainers[e].pc = "idle" => d <= e

\* mutant: the capacity test off by one
QueueIsFullStrict(q, max) == Len(q) > max

\* throttle line 90: the capacity test
QueueIsFull(q, max) == Len(q) >= max

\* the drainers that are inside processQueue
ActiveDrainers == {d \in 1..MaxDrainers : drainers[d].pc # "idle"}

\* mutant: processQueue does not test the processing flag
DrainerRunningIgnored == FALSE

\* processQueue line 112: if (this.processing) return
DrainerRunning == processing

\* throttle(fn, priority), with the synchronous part of processQueue it calls
Throttle(p, t) ==
    /\ Len(reqs) < MaxRequests
    /\ p = plan[Len(reqs) + 1]
    /\ LET id == Len(reqs) + 1
           rec == [startsBefore |-> Len(startLog)]
           e == Ev("throttle", id, Len(queue),
                   IF QueueIsFull(queue, maxQueueSize) THEN 0 ELSE 1,
                   Cardinality(ActiveDrainers))
       IN  IF QueueIsFull(queue, maxQueueSize)
           THEN /\ ~t
                /\ reqs' = Append(reqs, rec @@ [st |-> "full"])
                /\ ev' = e
                /\ UNCHANGED <<tokens, lastRefill, queue, processing, totalRequests,
                               delayedRequests, lastRequestTime, drainers, startLog>>
           ELSE LET q1 == Append(queue, [id |-> id, priority |-> p, timestamp |-> now])
                    rq1 == Append(reqs, rec @@ [st |-> "queued"])
                IN  IF DrainerRunning
                    THEN /\ ~t
                         /\ queue' = q1
                         /\ reqs' = rq1
                         /\ ev' = e
                         /\ UNCHANGED <<tokens, lastRefill, processing, totalRequests,
                                        delayedRequests, lastRequestTime, drainers, startLog>>
                    ELSE /\ \E d \in 1..MaxDrainers : drainers[d].pc = "idle"
                         /\ LoopTop(FreeDrainer, q1, rq1, TRUE, Fields, e, t)
    /\ UNCHANGED <<now, minRequestDelay, maxQueueSize, plan, resetCount, updateCount>>
    /\ UNCHANGED <<dedupVars, apiVars, workerVars>>

\* the timer of line 129 fires: continue
WakeToken(d, t) ==
    /\ drainers[d].pc = "sleepToken"
    /\ now >= drainers[d].wakeAt
    /\ LoopTop(d, queue, reqs, processing, Fields, Ev("wakeToken", 0, 0, 0, 0), t)
    /\ UNCHANGED <<now, minRequestDelay, maxQueueSize, plan, resetCount, updateCount>>
    /\ UNCHANGED <<dedupVars, apiVars, workerVars>>

\* the timer of line 138 fires: go on to the sort
WakeDelay(d, t) ==
    /\ drainers[d].pc = "sleepDelay"
    /\ now >= drainers[d].wakeAt
    /\ Dispatch(d, queue, reqs, processing, Fields, Ev("wakeDelay", 0, 0, 0, 0), t)
    /\ UNCHANGED <<now, minRequestDelay, maxQueueSize, plan, resetCount, updateCount>>
    /\ UNCHANGED <<dedupVars, apiVars, workerVars>>

\* the promise request.fn() returned settles: resolve or reject the caller,
\* next loop iteration
OpSettle(d, ok, t) ==
    /\ drainers[d].pc = "exec"
    /\ LoopTop(d, queue, [reqs EXCEPT ![drainers[d].req].st = "settled"], processing,
               Fields,
               Ev("settle", drainers[d].req, IF ok THEN 1 ELSE 0,
                  IF CallerResolves(ok) THEN 1 ELSE 0, 0),
               t)
    /\ UNCHANGED <<now, minRequestDelay, maxQueueSize, plan, resetCount, updateCount>>
    /\ UNCHANGED <<dedupVars, apiVars, workerVars>>

\* mutant: the clamp assigns remaining instead of taking the minimum
ClampedTokensAssigned(tok, limit, remaining) ==
    IF remaining * 10 < limit THEN remaining ELSE tok

\* updateFromHeaders(limit, remaining, reset): remaining < limit * 0.1
ClampedTokens(tok, limit, remaining) ==
    IF remaining * 10 < limit THEN Min(tok, remaining) ELSE tok

UpdateFromHeaders(limit, remaining) ==
    /\ updateCount < MaxUpdates
    /\ tokens' = ClampedTokens(tokens, limit, remaining)
    /\ updateCount' = updateCount + 1
    /\ ev' = Ev("update", limit, remaining, tokens, 0)
    /\ UNCHANGED <<now, minRequestDelay, maxQueueSize, lastRefill, queue, processing, totalRequests,
                   delayedRequests, lastRequestTime, drainers, reqs, plan, startLog,
                   resetCount>>
    /\ UNCHANGED <<dedupVars, apiVars, workerVars>>

\* mutant: reset() leaves the queue as it is
QueueAfterResetKept == queue

\* reset line 253: this.queue = []
QueueAfterReset == <<>>

\* reset()
Reset ==
    /\ resetCount < MaxResets
    /\ queue' = QueueAfterReset
    /\ tokens' = maxTokens
    /\ lastRefill' = now
    /\ processing' = FALSE
    /\ resetCount' = resetCount + 1
    /\ ev' = Ev("reset", 0, 0, 0, 0)
    /\ UNCHANGED <<now, minRequestDelay, maxQueueSize, totalRequests, delayedRequests,
                   lastRequestTime, drainers, reqs, plan, startLog, updateCount>>
    /\ UNCHANGED <<dedupVars, apiVars, workerVars>>

\* wall-clock time passes
Tick(max) ==
    /\ now < StartTime + max * TickMs
    /\ now' = now + TickMs
    /\ ev' = Ev("tick", 0, 0, 0, 0)
    /\ UNCHANGED <<limiterVars, dedupVars, apiVars, workerVars>>


(* ------------------------- RequestDeduplicator ------------------------- *)

NoOutcome == [res |-> "none", by |-> 0]

\* new RequestDeduplicator()
DedupInit ==
    /\ pending = [k \in Keys |-> 0]
    /\ requestCounts = [k \in Keys |-> 0]
    /\ ops = <<>>
    /\ callers = <<>>
    /\ cleared = [k \in Keys |-> FALSE]
    /\ clearCount = 0

\* mutant: the pending map is never consulted
IsPendingNever(key) == FALSE

\* pending.has(key)
IsPending(key) == pending[key] # 0

\* the operations for key whose supplier promise is unsettled
Unsettled(key) == {o \in DOMAIN ops : ops[o].key = key /\ ops[o].st = "running"}

\* the operations for key whose supplier promise has settled
Settled(key) == {o \in DOMAIN ops : ops[o].key = key /\ ops[o].st # "running"}

\* the operations for key whose finally callback has run
Finalized(key) == {o \in DOMAIN ops : ops[o].key = key /\ ops[o].st = "finalized"}

\* what a dedupe(key, fn) call finds and gets: history kept with the caller
Caller(key, op, fresh) ==
    [key |-> key, op |-> op, fresh |-> fresh, live |-> Unsettled(key),
     old |-> Settled(key), gone |-> Finalized(key), tainted |-> cleared[key],
     clears |-> clearCount, seen |-> NoOutcome]

\* dedupe(key, fn); call is the apiRequest call fn starts (0: some other supplier)
Dedupe(key, call) ==
    IF IsPending(key)
    THEN /\ requestCounts' = [requestCounts EXCEPT
                                 ![key] = (IF @ = 0 THEN 1 ELSE @) + 1]
         /\ callers' = Append(callers, Caller(key, pending[key], FALSE))
         /\ UNCHANGED <<pending, ops>>
    ELSE /\ requestCounts' = [requestCounts EXCEPT ![key] = 1]
         /\ ops' = Append(ops, [key |-> key, st |-> "running", out |-> NoOutcome,
                                call |-> call, forgotten |-> FALSE])
         /\ pending' = [pending EXCEPT ![key] = Len(ops) + 1]
         /\ callers' = Append(callers, Caller(key, Len(ops) + 1, TRUE))

\* a caller outside api.ts calls dedupe(key, fn)
DedupeCall(key) ==
    /\ Len(callers) < MaxCallers
    /\ Dedupe(key, 0)
    /\ UNCHANGED <<cleared, clearCount>>
    /\ UNCHANGED <<now, ev, limiterVars, apiVars, workerVars>>

\* the promise fn() returned settles: the value or error object is the operation's own
SupplierSettle(o, res) ==
    /\ ops[o].st = "running"
    /\ ops[o].call = 0
    /\ ops' = [ops EXCEPT ![o].st = "settled", ![o].out = [res |-> res, by |-> o]]
    /\ UNCHANGED <<pending, requestCounts, callers, cleared, clearCount>>
    /\ UNCHANGED <<now, ev, limiterVars, apiVars, workerVars>>

\* mutant: the finally callback leaves the entry in the map
PendingAfterFinallyKept(key) == pending

\* this.pending.delete(key)
PendingAfterFinally(key) == [pending EXCEPT ![key] = 0]

\* the .finally() callback of lines 50-59 runs, then the derived promise settles
Finalize(o) ==
    /\ ops[o].st = "settled"
    /\ pending' = PendingAfterFinally(ops[o].key)
    /\ requestCounts' = [requestCounts EXCEPT ![ops[o].key] = 0]
    /\ ops' = [ops EXCEPT ![o].st = "finalized"]
    /\ UNCHANGED <<callers, cleared, clearCount>>
    /\ UNCHANGED <<now, ev, limiterVars, apiVars, workerVars>>

\* the promise dedupe() returned to a caller settles with the derived promise's outcome
Observe(c) ==
    /\ callers[c].seen = NoOutcome
    /\ ops[callers[c].op].st = "finalized"
    /\ callers' = [callers EXCEPT ![c].seen = ops[callers[c].op].out]
    /\ UNCHANGED <<pending, requestCounts, ops, cleared, clearCount>>
    /\ UNCHANGED <<now, ev, limiterVars, apiVars, workerVars>>

\* mutant: clear() leaves the registrations in the map
PendingAfterClearKept == pending

\* this.pending.clear()
PendingAfterClear == [k \in Keys |-> 0]

\* clear(); forgotten is history: the operation was in flight when clear() ran
Clear ==
    /\ clearCount < MaxClears
    /\ pending' = PendingAfterClear
    /\ requestCounts' = [k \in Keys |-> 0]
    /\ cleared' = [k \in Keys |->
                     cleared[k] \/ \E o \in DOMAIN ops :
                                      ops[o].key = k /\ ops[o].st # "finalized"]
    /\ clearCount' = clearCount + 1
    /\ ops' = [o \in DOMAIN ops |->
                 [ops[o] EXCEPT !.forgotten = @ \/ ops[o].st # "finalized"]]
    /\ UNCHANGED callers
    /\ UNCHANGED <<now, ev, limiterVars, apiVars, workerVars>>

(* ------------------------------- api.ts -------------------------------- *)

\* parseRateLimitHeaders returned null
NoRateLimit == [limit |-> Absent, remaining |-> Absent, reset |-> Absent]

\* mutant: a missing X-RateLimit-Reset header is not noticed
ParseRateLimitHeadersLax(h) ==
    IF h[1] = Absent \/ h[2] = Absent THEN NoRateLimit
    ELSE [limit |-> h[1], remaining |-> h[2], reset |-> h[3]]

\* parseRateLimitHeaders(response.headers)
ParseRateLimitHeaders(h) ==
    IF h[1] = Absent \/ h[2] = Absent \/ h[3] = Absent THEN NoRateLimit
    ELSE [limit |-> h[1], remaining |-> h[2], reset |-> h[3]]

\* module load: no token in memory; storage may hold one from an earlier session
ApiInit ==
    /\ csrfToken = 0
    /\ storedCsrf \in {0, 1}
    /\ rateLimitInfo = NoRateLimit
    /\ calls = <<>>

\* the limiter fields updateFromHeaders() leaves alone
limiterRest == <<minRequestDelay, maxQueueSize, lastRefill, queue, processing, totalRequests,
                 delayedRequests, lastRequestTime, drainers, reqs, plan, startLog,
                 resetCount, updateCount>>

\* apiRequest(endpoint, options) is entered with retryOn401 defaulted to true
NewCall(method, op) ==
    [method |-> method, op |-> op, pc |-> "prep", retryOn401 |-> TRUE, header |-> 0,
     token |-> 0, dispatches |-> 0, csrfFetches |-> 0, first |-> 0, status |-> 0,
     hdrs |-> NoHeaders, rl |-> NoRateLimit, decoded |-> FALSE, result |-> "none", msg |-> "none",
     bodyMsg |-> "none", text |-> "none", failed |-> "none", cached |-> 0]

\* mutant: the recursive attempt keeps the retry enabled
RetryOn401ForRetryKept == TRUE

\* the retryOn401 option the recursive attempt is given
RetryOn401ForRetry == FALSE

\* mutant: every error status is reported as a generic API error
ErrorKindGeneric(status) == "ApiError"

\* handleErrorResponse: the error class thrown for a status
ErrorKind(status) ==
    CASE status = 401 -> "AuthenticationError"
      [] status = 403 -> "AuthenticationError"
      [] status = 400 -> "ValidationError"
      [] status = 429 -> "RateLimit"
      [] OTHER -> "ApiError"

\* handleErrorResponse lines 218-225: errorData.error || errorData.message ||
\* response.statusText, or response.statusText when the body is not JSON
ErrorMessage(body, text) == IF body # "none" THEN body ELSE text

\* a || b on message strings
OrElse(m, dflt) == IF m = "" THEN dflt ELSE m

\* handleErrorResponse lines 227-253: the message the thrown error is given
ThrownMessage(status, em) ==
    CASE status = 401 -> OrElse(em, "AUTH_REQUIRED")
      [] status = 403 -> IF em = "serverEmail" THEN "EMAIL_NOT_VERIFIED" ELSE em
      [] status = 400 -> em
      [] status = 429 -> "RATE_LIMIT_EXCEEDED"
      [] OTHER -> OrElse(em, "SERVER_ERROR")

\* response.ok
ResponseOk(status) == status >= 200 /\ status <= 299

\* the message of the errors apiRequest's catch block builds (lines 201-213)
CatchMessage(res, kind) ==
    CASE res = "ok" -> "none"
      [] kind = "timeout" -> "REQUEST_TIMEOUT"
      [] kind = "network" -> "NETWORK_ERROR"
      [] OTHER -> "SERVER_ERROR"

\* mutant: the catch block rethrows what it does not recognise
GenericErrorRethrown == "RawError"

\* lines 210-213: new ExtensionError(SERVER_ERROR, 'UNKNOWN_ERROR'), which the catch
\* block throws for whatever is neither an ExtensionError, a timeout nor a fetch TypeError
GenericError == "UnknownError"

\* the promise of the top-level call settles
Done(r, res) ==
    [r EXCEPT !.pc = "done", !.result = res, !.msg = CatchMessage(res, "other"), !.cached = 0]

\* fetchWithTimeout(url, {headers, ...}): the endpoint request goes out
SendEndpoint(r, tok) ==
    [r EXCEPT !.pc = "fetch", !.header = tok, !.dispatches = @ + 1, !.status = 0,
              !.hdrs = NoHeaders, !.rl = NoRateLimit, !.cached = 0]

\* lines 182-194: what the attempt does with the response it holds; cached is
\* history, kept until the retry is sent: the in-memory token at the moment a
\* state-mutating call calls clearCsrfToken()
Classified(r) ==
    IF r.status = 401 /\ r.retryOn401
    THEN [r EXCEPT !.pc = "clear", !.cached = IF r.method # "GET" THEN csrfToken ELSE 0]
    ELSE IF ~ResponseOk(r.status) THEN [r EXCEPT !.pc = "errBody"]
    ELSE [r EXCEPT !.pc = "body"]

\* clearCsrfToken() nulls the in-memory token before its first await
CsrfAfterClassify(r) == IF r.status = 401 /\ r.retryOn401 THEN 0 ELSE csrfToken

\* a settled read settles the promise its supplier returned to dedupe()
OpsAfter(r) ==
    IF r.pc = "done" /\ r.op # 0
    THEN [ops EXCEPT ![r.op].st = "settled", ![r.op].out = [res |-> r.result, by |-> r.op]]
    ELSE ops

Step(c, r) ==
    /\ calls' = [calls EXCEPT ![c] = r]
    /\ ops' = OpsAfter(r)

\* a read endpoint: globalDeduplicator.dedupe(key, () => apiRequest(endpoint, {method: 'GET'}))
ApiRead(key) ==
    /\ Len(callers) < MaxReadCallers
    /\ IsPending(key) \/ Len(calls) < MaxApiCalls
    /\ Dedupe(key, Len(calls) + 1)
    /\ calls' = IF IsPending(key) THEN calls
                ELSE Append(calls, NewCall("GET", Len(ops) + 1))
    /\ UNCHANGED <<cleared, clearCount, csrfToken, storedCsrf, rateLimitInfo>>
    /\ UNCHANGED <<now, ev, limiterVars, workerVars>>

\* the writes whose apiRequest call has not settled
WritesInFlight(cs) == {c \in DOMAIN cs : cs[c].method = "POST" /\ cs[c].pc # "done"}

\* mutant: a write made while an identical write is in flight is merged into it
CallsAfterWriteMerged(cs) ==
    IF WritesInFlight(cs) # {} THEN cs ELSE Append(cs, NewCall("POST", 0))

\* a write endpoint returns apiRequest(endpoint, {method: 'POST', body}) itself
CallsAfterWrite(cs) == Append(cs, NewCall("POST", 0))

\* a write endpoint is called (at most max times over a run); the event names the
\* apiRequest call the write is answered by and counts the writes in flight
StartWrite(max) ==
    /\ Len(calls) < max
    /\ calls' = CallsAfterWrite(calls)
    /\ ev' = Ev("write", Len(calls) + 1, Cardinality(WritesInFlight(calls)), 0, 0)
    /\ UNCHANGED <<csrfToken, storedCsrf, rateLimitInfo>>
    /\ UNCHANGED <<now, limiterVars, dedupVars, workerVars>>

\* createProject / addReference / updateReference / deleteReference
ApiWrite == StartWrite(MaxApiCalls)

\* lines 113-148 after the base URL and the cookie are read
Prep(c) ==
    /\ calls[c].pc = "prep"
    /\ IF calls[c].method # "GET"
       THEN IF csrfToken # 0
            THEN Step(c, SendEndpoint(calls[c], csrfToken))
            ELSE Step(c, [calls[c] EXCEPT !.pc = "csrfGet"])
       ELSE Step(c, SendEndpoint(calls[c], 0))
    /\ UNCHANGED <<csrfToken, storedCsrf, rateLimitInfo>>
    /\ UNCHANGED <<pending, requestCounts, callers, cleared, clearCount>>
    /\ UNCHANGED <<now, ev, limiterVars, workerVars>>

\* getCsrfToken resumes from storage.local.get; a rejection is caught at line 145
CsrfGet(c, ok) ==
    /\ calls[c].pc = "csrfGet"
    /\ IF ~ok
       THEN Step(c, SendEndpoint(calls[c], 0)) /\ UNCHANGED csrfToken
       ELSE IF storedCsrf # 0
            THEN csrfToken' = storedCsrf /\ Step(c, SendEndpoint(calls[c], storedCsrf))
            ELSE /\ Step(c, [calls[c] EXCEPT !.pc = "csrfFetch", !.csrfFetches = @ + 1])
                 /\ UNCHANGED csrfToken
    /\ UNCHANGED <<storedCsrf, rateLimitInfo>>
    /\ UNCHANGED <<pending, requestCounts, callers, cleared, clearCount>>
    /\ UNCHANGED <<now, ev, limiterVars, workerVars>>

\* fetchCsrfToken resumes from its fetch; tok = 0: failure, not ok, or no header
CsrfFetch(c, tok) ==
    /\ calls[c].pc = "csrfFetch"
    /\ IF tok = 0
       THEN Step(c, SendEndpoint(calls[c], 0)) /\ UNCHANGED csrfToken
       ELSE csrfToken' = tok /\ Step(c, [calls[c] EXCEPT !.pc = "csrfSet", !.token = tok])
    /\ UNCHANGED <<storedCsrf, rateLimitInfo>>
    /\ UNCHANGED <<pending, requestCounts, callers, cleared, clearCount>>
    /\ UNCHANGED <<now, ev, limiterVars, workerVars>>

\* fetchCsrfToken resumes from storage.local.set; a rejection is caught at line 145
CsrfSet(c, ok) ==
    /\ calls[c].pc = "csrfSet"
    /\ IF ok
       THEN /\ storedCsrf' = calls[c].token
            /\ Step(c, SendEndpoint([calls[c] EXCEPT !.token = 0], calls[c].token))
       ELSE /\ UNCHANGED storedCsrf
            /\ Step(c, SendEndpoint([calls[c] EXCEPT !.token = 0], 0))
    /\ UNCHANGED <<csrfToken, rateLimitInfo>>
    /\ UNCHANGED <<pending, requestCounts, callers, cleared, clearCount>>
    /\ UNCHANGED <<now, ev, limiterVars, workerVars>>

\* globalRateLimiter.updateFromHeaders as apiRequest calls it (line 167)
ApplyHeaders(rl) ==
    /\ tokens' = ClampedTokens(tokens, rl.limit, rl.remaining)
    /\ ev' = Ev("update", rl.limit, rl.remaining, tokens, rl.reset)
    /\ UNCHANGED limiterRest

\* the endpoint fetch resolves with a response of this status and these
\* rate-limit headers; with a reset that is no number, the log line of
\* updateFromHeaders (new Date(NaN).toISOString()) throws into the catch block
Fetch(c, status, h) ==
    /\ calls[c].pc = "fetch"
    /\ LET rl == ParseRateLimitHeaders(h)
           r == [calls[c] EXCEPT !.status = status, !.header = 0, !.hdrs = h,
                                 !.first = IF calls[c].dispatches = 1 THEN status ELSE @]
       IN IF rl = NoRateLimit
          THEN /\ Step(c, Classified(r))
               /\ csrfToken' = CsrfAfterClassify(r)
               /\ UNCHANGED <<ev, limiterVars>>
          ELSE IF rl.reset = Malformed
          THEN /\ Step(c, Done(r, GenericError))
               /\ UNCHANGED <<csrfToken, ev, limiterVars>>
          ELSE /\ ApplyHeaders(rl)
               /\ Step(c, [r EXCEPT !.pc = "rlStore", !.rl = rl])
               /\ UNCHANGED csrfToken
    /\ UNCHANGED <<storedCsrf, rateLimitInfo>>
    /\ UNCHANGED <<pending, requestCounts, callers, cleared, clearCount>>
    /\ UNCHANGED <<now, workerVars>>

\* mutant: every rejection of the fetch becomes the generic unknown error
CatchKindUnknown(kind) == "UnknownError"

\* lines 201-213: the error class thrown for a rejection of the fetch
CatchKind(kind) == IF kind \in {"timeout", "network"} THEN "NetworkError" ELSE GenericError

\* the endpoint fetch rejects: lines 196-213; failed is history
FetchFail(c, kind) ==
    /\ calls[c].pc = "fetch"
    /\ Step(c, [Done([calls[c] EXCEPT !.header = 0], CatchKind(kind))
                 EXCEPT !.msg = CatchMessage("error", kind), !.failed = kind])
    /\ UNCHANGED <<csrfToken, storedCsrf, rateLimitInfo>>
    /\ UNCHANGED <<pending, requestCounts, callers, cleared, clearCount>>
    /\ UNCHANGED <<now, ev, limiterVars, workerVars>>

\* setRateLimitInfo settles; a rejection is caught at line 177
RlStore(c, ok) ==
    /\ calls[c].pc = "rlStore"
    /\ rateLimitInfo' = IF ok THEN calls[c].rl ELSE rateLimitInfo
    /\ Step(c, Classified([calls[c] EXCEPT !.rl = NoRateLimit, !.hdrs = NoHeaders]))
    /\ csrfToken' = CsrfAfterClassify(calls[c])
    /\ UNCHANGED storedCsrf
    /\ UNCHANGED <<pending, requestCounts, callers, cleared, clearCount>>
    /\ UNCHANGED <<now, ev, limiterVars, workerVars>>

\* clearCsrfToken resumes from storage.local.remove, then the recursive apiRequest starts
ClearDone(c, ok) ==
    /\ calls[c].pc = "clear"
    /\ IF ok
       THEN /\ storedCsrf' = 0
            /\ Step(c, [calls[c] EXCEPT !.pc = "prep", !.hdrs = NoHeaders,
                                         !.retryOn401 = RetryOn401ForRetry])
       ELSE /\ UNCHANGED storedCsrf
            /\ Step(c, Done([calls[c] EXCEPT !.hdrs = NoHeaders], GenericError))
    /\ UNCHANGED <<csrfToken, rateLimitInfo>>
    /\ UNCHANGED <<pending, requestCounts, callers, cleared, clearCount>>
    /\ UNCHANGED <<now, ev, limiterVars, workerVars>>

\* handleErrorResponse resumes from response.json() and throws; body is the
\* message the body supplies ("none": no JSON, or no error/message field), text
\* the response's statusText
ErrBody(c, body, text) ==
    /\ calls[c].pc = "errBody"
    /\ Step(c, [Done([calls[c] EXCEPT !.hdrs = NoHeaders], ErrorKind(calls[c].status))
                 EXCEPT !.msg = ThrownMessage(calls[c].status, ErrorMessage(body, text)),
                        !.bodyMsg = body, !.text = text])
    /\ UNCHANGED <<csrfToken, storedCsrf, rateLimitInfo>>
    /\ UNCHANGED <<pending, requestCounts, callers, cleared, clearCount>>
    /\ UNCHANGED <<now, ev, limiterVars, workerVars>>

\* response.json() of a 2xx response settles
Body(c, ok) ==
    /\ calls[c].pc = "body"
    /\ Step(c, Done([calls[c] EXCEPT !.decoded = ok, !.hdrs = NoHeaders],
                     IF ok THEN "ok" ELSE GenericError))
    /\ UNCHANGED <<csrfToken, storedCsrf, rateLimitInfo>>
    /\ UNCHANGED <<pending, requestCounts, callers, cleared, clearCount>>
    /\ UNCHANGED <<now, ev, limiterVars, workerVars>>

(* --------------------------- service-worker.ts ------------------------ *)

\* the message types of handleMessage's switch
MessageTypes == {"CHECK_AUTH", "LOGIN", "LOGOUT", "GET_PROJECTS", "GET_CATEGORIES",
                 "ADD_REFERENCE", "DETECT_PAPER", "OPEN_OPTIONS", "PAPER_DETECTED",
                 "GET_RATE_LIMIT"}
\* a type the switch has no case for
UnknownTypes == {"UNKNOWN_TYPE"}

\* strings are sequences of parts; the empty string is <<>>
EmptyString == <<>>
\* what the body of a handler can throw: an Error with or without a message, a
\* string, anything else
ThrownValues == {[kind |-> "Error", message |-> <<"cause">>],
                 [kind |-> "Error", message |-> EmptyString],
                 [kind |-> "string", message |-> <<"text">>],
                 [kind |-> "other", message |-> EmptyString]}

\* getErrorMessage(error)
GetErrorMessage(e) ==
    IF e.kind \in {"Error", "string"} THEN e.message ELSE <<"An unknown error occurred">>

\* a handler's catch block: throw new Error(`<what failed>: ${getErrorMessage(error)}`)
Rethrown(type, e) == [kind |-> "Error", message |-> <<type, ": ">> \o GetErrorMessage(e)]

\* a MessageResponse; hasError is FALSE when the error property is undefined
Success == [success |-> TRUE, hasError |-> FALSE, error |-> EmptyString]
Failure(text) == [success |-> FALSE, hasError |-> TRUE, error |-> text]

Resolved(v) == [settled |-> "resolved", value |-> v]
Unsettled0 == [settled |-> "no", value |-> EmptyString]

\* mutant: the catch block of handleMessage reports success
CaughtByHandleMessageAsSuccess(e) == Resolved(Success)

\* handleMessage lines 189-194
CaughtByHandleMessage(e) == Resolved(Failure(GetErrorMessage(e)))

\* handleMessage's default case
UnknownTypeResponse(type) == Resolved(Failure(<<"Unknown message type: ", type>>))

\* the listener's .then / .catch on the promise of handleMessage (lines 132-142)
ListenerOutcome(hm) ==
    IF hm.settled = "resolved" THEN hm ELSE Resolved(Failure(GetErrorMessage(hm.value)))

WorkerInit == msgs = <<>>

\* the onMessage listener is called and handleMessage runs to its first await
OnMessage(type) ==
    /\ Len(msgs) < MaxMessages
    /\ msgs' = Append(msgs,
          [type |-> type, failed |-> FALSE,
           pc |-> IF type \in MessageTypes THEN "handler" ELSE "handled",
           hm |-> IF type \in MessageTypes THEN Unsettled0 ELSE UnknownTypeResponse(type),
           out |-> Unsettled0])
    /\ UNCHANGED <<now, ev, limiterVars, dedupVars, apiVars, extVars>>

\* the handler returns a response: success, or for DETECT_PAPER without a stored
\* paper the NO_PAPER_DETECTED failure
HandlerReturns(m, found) ==
    /\ msgs[m].pc = "handler"
    /\ found \/ msgs[m].type = "DETECT_PAPER"
    /\ msgs' = [msgs EXCEPT ![m].pc = "handled",
                            ![m].hm = IF found THEN Resolved(Success)
                                      ELSE Resolved(Failure(<<"NO_PAPER_DETECTED">>))]
    /\ UNCHANGED <<now, ev, limiterVars, dedupVars, apiVars, extVars>>

\* the body of the handler throws e: the handler rethrows, handleMessage catches
HandlerThrows(m, e) ==
    /\ msgs[m].pc = "handler"
    /\ msgs' = [msgs EXCEPT ![m].pc = "handled", ![m].failed = TRUE,
                            ![m].hm = CaughtByHandleMessage(Rethrown(msgs[m].type, e))]
    /\ UNCHANGED <<now, ev, limiterVars, dedupVars, apiVars, extVars>>

\* the listener's reaction runs and the promise it returned settles
Respond(m) ==
    /\ msgs[m].pc = "handled"
    /\ msgs' = [msgs EXCEPT ![m].pc = "responded", ![m].out = ListenerOutcome(msgs[m].hm)]
    /\ UNCHANGED <<now, ev, limiterVars, dedupVars, apiVars, extVars>>

(* ------------------------- storage.ts: the caches ----------------------- *)

\* the projects a category cache entry is kept for
ProjectIds == {1, 2}
\* CACHE_CONFIG.PROJECTS_CACHE_TIMEOUT = CACHE_CONFIG.CATEGORIES_CACHE_TIMEOUT: 5 minutes
CacheTimeout == 300000

\* no CachedProjects object / no allCached[projectId]
NoEntry == [value |-> 0, timestamp |-> 0]
\* {projects, timestamp} / {categories, timestamp}
Entry(v, t) == [value |-> v, timestamp |-> t]
NoCategories == [p \in ProjectIds |-> NoEntry]

\* mutant: an entry expires when its age reaches the timeout
IsExpiredAtTimeout(timestamp, timeoutMs) == now - timestamp >= timeoutMs

\* isExpired(timestamp, timeoutMs)
IsExpired(timestamp, timeoutMs) == now - timestamp > timeoutMs

StorageInit ==
    /\ cachedProjects = NoEntry
    /\ cachedCategories = NoCategories
    /\ fetchers = <<>>
    /\ authCleared = [count |-> 0, revoked |-> 0, callsBefore |-> 0]
    /\ adds = <<>>

\* fetchAndCacheProjects(forceRefresh) / fetchAndCacheCategories(projectId, forceRefresh)
\* runs to its first await: the storage read of getCached..., or with forceRefresh
\* the API read. History: reads, the getProjects() / getCategories() calls made;
\* readFailed, the storage read of getCached... has just rejected
NewFetcher(kind, p, force) ==
    [kind |-> kind, project |-> p, force |-> force,
     pc |-> IF force THEN "api" ELSE "cacheGet",
     reads |-> IF force THEN 1 ELSE 0,
     value |-> 0, stamp |-> 0, snap |-> NoCategories,
     result |-> "none", ret |-> 0, readFailed |-> FALSE]

\* the call has settled: its locals are gone
Returned(r, result, ret) ==
    [r EXCEPT !.pc = "done", !.result = result, !.ret = ret,
              !.value = 0, !.stamp = 0, !.snap = NoCategories, !.readFailed = FALSE]

\* at most max calls are made over a run
StartFetch(kind, p, force, max) ==
    /\ Len(fetchers) < max
    /\ fetchers' = Append(fetchers, NewFetcher(kind, p, force))
    /\ UNCHANGED <<cachedProjects, cachedCategories, authCleared, adds,
                   timeoutId, pendingPromise, timers, promises, debouncedCalls>>
    /\ UNCHANGED <<now, ev, limiterVars, dedupVars, apiVars, msgs>>

\* getCachedProjects / getCachedCategories resumes from storage.local.get (a
\* rejection is caught and gives null), and fetchAndCache... goes on
CacheGet(f, ok) ==
    /\ fetchers[f].pc = "cacheGet"
    /\ LET e == IF fetchers[f].kind = "projects" THEN cachedProjects
                ELSE cachedCategories[fetchers[f].project]
       IN fetchers' = [fetchers EXCEPT ![f] =
              IF ok /\ e # NoEntry /\ ~IsExpired(e.timestamp, CacheTimeout)
              THEN Returned(@, "cached", e.value)
              ELSE [@ EXCEPT !.pc = "api", !.reads = @ + 1, !.readFailed = ~ok]]
    /\ UNCHANGED <<cachedProjects, cachedCategories, authCleared, adds,
                   timeoutId, pendingPromise, timers, promises, debouncedCalls>>
    /\ UNCHANGED <<now, ev, limiterVars, dedupVars, apiVars, msgs>>

\* getProjects() / getCategories(projectId) settles (~ok: it rejects, and so
\* does fetchAndCache...) with a value that tells the response from the others,
\* the number of the call; setCachedProjects builds {projects, timestamp: Date.now()}
\* and awaits storage.local.set; setCachedCategories awaits storage.local.get
ApiSettle(f, ok) ==
    /\ fetchers[f].pc = "api"
    /\ fetchers' = [fetchers EXCEPT ![f] =
           IF ~ok THEN Returned(@, "error", 0)
           ELSE IF @.kind = "projects"
           THEN [@ EXCEPT !.pc = "set", !.value = f, !.stamp = now,
                          !.readFailed = FALSE]
           ELSE [@ EXCEPT !.pc = "setGet", !.value = f, !.readFailed = FALSE]]
    /\ UNCHANGED <<cachedProjects, cachedCategories, authCleared, adds,
                   timeoutId, pendingPromise, timers, promises, debouncedCalls>>
    /\ UNCHANGED <<now, ev, limiterVars, dedupVars, apiVars, msgs>>

\* setCachedCategories resumes from storage.local.get with the whole cache
\* object, puts its own entry into it and awaits storage.local.set; a rejection
\* of the read is rethrown
SetGet(f, ok) ==
    /\ fetchers[f].pc = "setGet"
    /\ fetchers' = [fetchers EXCEPT ![f] =
           IF ok
           THEN [@ EXCEPT !.pc = "set", !.stamp = now,
                          !.snap = [cachedCategories EXCEPT
                                      ![fetchers[f].project] = Entry(fetchers[f].value, now)]]
           ELSE Returned(@, "error", 0)]
    /\ UNCHANGED <<cachedProjects, cachedCategories, authCleared, adds,
                   timeoutId, pendingPromise, timers, promises, debouncedCalls>>
    /\ UNCHANGED <<now, ev, limiterVars, dedupVars, apiVars, msgs>>

\* storage.local.set settles; a rejection is rethrown by setCached... and so
\* fetchAndCache... rejects
CacheSet(f, ok) ==
    /\ fetchers[f].pc = "set"
    /\ IF ok
       THEN /\ cachedProjects' = IF fetchers[f].kind = "projects"
                                 THEN Entry(fetchers[f].value, fetchers[f].stamp)
                                 ELSE cachedProjects
            /\ cachedCategories' = IF fetchers[f].kind = "projects" THEN cachedCategories
                                   ELSE fetchers[f].snap
            /\ fetchers' = [fetchers EXCEPT ![f] = Returned(@, "fetched", @.value)]
       ELSE /\ UNCHANGED <<cachedProjects, cachedCategories>>
            /\ fetchers' = [fetchers EXCEPT ![f] = Returned(@, "error", 0)]
    /\ UNCHANGED <<authCleared, adds, timeoutId, pendingPromise, timers, promises, debouncedCalls>>
    /\ UNCHANGED <<now, ev, limiterVars, dedupVars, apiVars, msgs>>

\* time passes, in steps of half the timeout
Elapse ==
    /\ now < StartTime + MaxElapses * (CacheTimeout \div 2)
    /\ now' = now + CacheTimeout \div 2
    /\ UNCHANGED <<ev, limiterVars, dedupVars, apiVars, workerVars>>

(* ---------------------- auth.ts: clearAuthState ------------------------ *)

\* clearAuthState() resumes from storage.local.remove([AUTH_STATE, CACHED_PROJECTS,
\* CACHED_CATEGORIES, CSRF_TOKEN]); a rejection is rethrown. authCleared is
\* history: the in-memory token the call left behind and the apiRequest calls
\* made before it
ClearAuthState(ok) ==
    /\ authCleared.count < MaxAuthClears
    /\ IF ok
       THEN /\ storedCsrf' = 0
            /\ cachedProjects' = NoEntry
            /\ cachedCategories' = NoCategories
            /\ authCleared' = [count |-> authCleared.count + 1, revoked |-> csrfToken,
                               callsBefore |-> Len(calls)]
       ELSE /\ UNCHANGED <<storedCsrf, cachedProjects, cachedCategories>>
            /\ authCleared' = [authCleared EXCEPT !.count = @ + 1]
    /\ UNCHANGED <<csrfToken, rateLimitInfo, calls, fetchers, adds,
                   timeoutId, pendingPromise, timers, promises, debouncedCalls>>
    /\ UNCHANGED <<now, ev, limiterVars, dedupVars, msgs>>

(* ------------------ service-worker.ts: handleAddReference --------------- *)

\* what addReference / fetchAndCacheCategories rejected with
BackendError == [kind |-> "Error", message |-> <<"cause">>]

\* the response to the message when the handler's try block threw e: the catch
\* block rethrows (line 327), handleMessage catches (lines 189-194), the
\* listener answers
AddFailed(e) == ListenerOutcome(CaughtByHandleMessage(Rethrown("ADD_REFERENCE", e)))

\* an ADD_REFERENCE message arrives; the handler runs to its first await, the
\* addReference call, or throws before it. called and added are history: the
\* backend call was made, the backend added the reference
OnAddReference(hasProject, hasBibtex, hasCategory) ==
    /\ Len(adds) < MaxAdds
    /\ adds' = Append(adds,
          [hasProject |-> hasProject, hasBibtex |-> hasBibtex, hasCategory |-> hasCategory,
           called |-> hasProject /\ hasBibtex, added |-> FALSE, fetcher |-> 0,
           pc |-> IF hasProject /\ hasBibtex THEN "add" ELSE "done",
           out |-> IF ~hasProject THEN AddFailed([kind |-> "Error", message |-> <<"Project ID is required">>])
                   ELSE IF ~hasBibtex THEN AddFailed([kind |-> "Error", message |-> <<"BibTeX is required">>])
                   ELSE Unsettled0])
    /\ UNCHANGED <<cachedProjects, cachedCategories, fetchers, authCleared,
                   timeoutId, pendingPromise, timers, promises, debouncedCalls>>
    /\ UNCHANGED <<now, ev, limiterVars, dedupVars, apiVars, msgs>>

\* addReference settles; with a category in the payload the handler calls
\* fetchAndCacheCategories(projectId, true)
AddSettle(a, ok) ==
    /\ adds[a].pc = "add"
    /\ IF ~ok
       THEN /\ adds' = [adds EXCEPT ![a].pc = "done", ![a].out = AddFailed(BackendError)]
            /\ UNCHANGED fetchers
       ELSE IF adds[a].hasCategory
       THEN /\ adds' = [adds EXCEPT ![a].pc = "refresh", ![a].added = TRUE,
                                    ![a].fetcher = Len(fetchers) + 1]
            /\ fetchers' = Append(fetchers, NewFetcher("categories", 1, TRUE))
       ELSE /\ adds' = [adds EXCEPT ![a].pc = "done", ![a].added = TRUE,
                                    ![a].out = ListenerOutcome(Resolved(Success))]
            /\ UNCHANGED fetchers
    /\ UNCHANGED <<cachedProjects, cachedCategories, authCleared,
                   timeoutId, pendingPromise, timers, promises, debouncedCalls>>
    /\ UNCHANGED <<now, ev, limiterVars, dedupVars, apiVars, msgs>>

\* fetchAndCacheCategories has settled and the handler resumes
AddRefreshed(a) ==
    /\ adds[a].pc = "refresh"
    /\ fetchers[adds[a].fetcher].pc = "done"
    /\ adds' = [adds EXCEPT ![a].pc = "done",
                            ![a].out = IF fetchers[adds[a].fetcher].result = "error"
                                       THEN AddFailed(BackendError) ELSE ListenerOutcome(Resolved(Success))]
    /\ UNCHANGED <<cachedProjects, cachedCategories, fetchers, authCleared,
                   timeoutId, pendingPromise, timers, promises, debouncedCalls>>
    /\ UNCHANGED <<now, ev, limiterVars, dedupVars, apiVars, msgs>>

(* ------------------------ utils.ts: debounceAsync ----------------------- *)

\* debounceAsync(initialize, 500)
wait == 500

DebounceInit ==
    /\ timeoutId = 0
    /\ pendingPromise = 0
    /\ timers = {}
    /\ promises = <<>>
    /\ debouncedCalls = <<>>

\* the debounced function is called; the promise and the timer a call creates
\* share their number
DebouncedCall ==
    /\ Len(debouncedCalls) < MaxDebounceCalls
    /\ now <= StartTime + MaxDebounceTicks * (wait \div 2)
    /\ LET kept == IF timeoutId # 0 THEN {t \in timers : t.id # timeoutId} ELSE timers
           id == Len(promises) + 1
       IN IF pendingPromise = 0
          THEN /\ promises' = Append(promises, "pending")
               /\ timers' = kept \cup {[id |-> id, due |-> now + wait]}
               /\ timeoutId' = id
               /\ pendingPromise' = id
               /\ debouncedCalls' = Append(debouncedCalls, [promise |-> id])
          ELSE /\ timers' = kept
               /\ debouncedCalls' = Append(debouncedCalls, [promise |-> pendingPromise])
               /\ UNCHANGED <<promises, timeoutId, pendingPromise>>
    /\ UNCHANGED <<cachedProjects, cachedCategories, fetchers, authCleared, adds>>
    /\ UNCHANGED <<now, ev, limiterVars, dedupVars, apiVars, msgs>>

\* a scheduled timer is due and its callback runs: func is invoked and the
\* promise created with the timer is resolved with the promise func returned
TimerFires(id) ==
    /\ \E t \in timers : t.id = id /\ t.due <= now
    /\ timers' = {t \in timers : t.id # id}
    /\ promises' = [promises EXCEPT ![id] = "running"]
    /\ timeoutId' = 0
    /\ pendingPromise' = 0
    /\ UNCHANGED debouncedCalls
    /\ UNCHANGED <<cachedProjects, cachedCategories, fetchers, authCleared, adds>>
    /\ UNCHANGED <<now, ev, limiterVars, dedupVars, apiVars, msgs>>

\* the promise func returned settles, and with it the promise resolved with it
FuncSettles(p) ==
    /\ p \in DOMAIN promises
    /\ promises[p] = "running"
    /\ promises' = [promises EXCEPT ![p] = "settled"]
    /\ UNCHANGED <<timeoutId, pendingPromise, timers, debouncedCalls>>
    /\ UNCHANGED <<cachedProjects, cachedCategories, fetchers, authCleared, adds>>
    /\ UNCHANGED <<now, ev, limiterVars, dedupVars, apiVars, msgs>>

\* time passes, in steps of half the wait: while calls can still be made, and
\* until every scheduled timer is due
DebounceElapse ==
    /\ \/ now < StartTime + MaxDebounceTicks * (wait \div 2)
       \/ \E t \in timers : t.due > now
    /\ now' = now + wait \div 2
    /\ UNCHANGED <<ev, limiterVars, dedupVars, apiVars, workerVars>>

Init ==
    /\ now = StartTime
    /\ ev = NoEvent
    /\ LimiterInit
    /\ DedupInit
    /\ ApiInit
    /\ WorkerInit
    /\ StorageInit
    /\ DebounceInit

\* one configuration of the limiter, for the runs in which throttle() is never called
InitOneLimiter ==
    /\ Init
    /\ minRequestDelay = 0
    /\ maxQueueSize = 3
    /\ plan = PlanEqual

\* the limiter on its own: the extension's storage starts empty
InitEmptyStorage ==
    /\ Init
    /\ storedCsrf = 0

NextLimiter ==
    \/ \E p \in Priorities, t \in Throws : Throttle(p, t)
    \/ \E d \in 1..MaxDrainers, t \in Throws : WakeToken(d, t)
    \/ \E d \in 1..MaxDrainers, t \in Throws : WakeDelay(d, t)
    \/ \E d \in 1..MaxDrainers, ok \in BOOLEAN, t \in Throws : OpSettle(d, ok, t)
    \/ \E l \in HeaderLimits, r \in HeaderRemainings : UpdateFromHeaders(l, r)
    \/ Reset
    \/ Tick(MaxTicks)

SpecLimiter == InitEmptyStorage /\ [][NextLimiter]_vars

\* the limiter when reset() is never called
NextLimiterRun ==
    \/ \E p \in Priorities, t \in Throws : Throttle(p, t)
    \/ \E d \in 1..MaxDrainers, t \in Throws : WakeToken(d, t)
    \/ \E d \in 1..MaxDrainers, t \in Throws : WakeDelay(d, t)
    \/ \E d \in 1..MaxDrainers, ok \in BOOLEAN, t \in Throws : OpSettle(d, ok, t)
    \/ \E l \in HeaderLimits, r \in HeaderRemainings : UpdateFromHeaders(l, r)
    \/ Tick(MaxRunTicks)

SpecLimiterRun == InitEmptyStorage /\ [][NextLimiterRun]_vars

\* a drainer is suspended on a timer that has not fired yet
TimerPending == \E d \in 1..MaxDrainers :
                   /\ drainers[d].pc \in {"sleepToken", "sleepDelay"}
                   /\ now < drainers[d].wakeAt

\* wall-clock time passes, and goes on passing while a timer is pending
TickLive ==
    /\ now < StartTime + MaxTicks * TickMs \/ TimerPending
    /\ now' = now + TickMs
    /\ ev' = Ev("tick", 0, 0, 0, 0)
    /\ UNCHANGED <<limiterVars, dedupVars, apiVars, workerVars>>

\* the limiter when reset() is never called, time passes, timers fire and every
\* operation settles
NextLimiterLive ==
    \/ \E p \in Priorities, t \in Throws : Throttle(p, t)
    \/ \E d \in 1..MaxDrainers, t \in Throws : WakeToken(d, t)
    \/ \E d \in 1..MaxDrainers, t \in Throws : WakeDelay(d, t)
    \/ \E d \in 1..MaxDrainers, ok \in BOOLEAN, t \in Throws : OpSettle(d, ok, t)
    \/ \E l \in HeaderLimits, r \in HeaderRemainings : UpdateFromHeaders(l, r)
    \/ TickLive

SpecLimiterLive ==
    /\ InitEmptyStorage
    /\ [][NextLimiterLive]_vars
    /\ WF_vars(TickLive)
    /\ WF_vars(\E d \in 1..MaxDrainers, t \in Throws : WakeToken(d, t))
    /\ WF_vars(\E d \in 1..MaxDrainers, t \in Throws : WakeDelay(d, t))
    /\ WF_vars(\E d \in 1..MaxDrainers, ok \in BOOLEAN, t \in Throws : OpSettle(d, ok, t))

\* the deduplicator with suppliers that settle on their own
NextDedup ==
    \/ \E k \in Keys : DedupeCall(k)
    \/ \E o \in DOMAIN ops, res \in {"value", "error"} : SupplierSettle(o, res)
    \/ \E o \in DOMAIN ops : Finalize(o)
    \/ \E c \in DOMAIN callers : Observe(c)
    \/ Clear

SpecDedup == InitOneLimiter /\ [][NextDedup]_vars

\* the API client: reads through the deduplicator, writes directly
NextApi ==
    \/ \E k \in Keys : ApiRead(k)
    \/ ApiWrite
    \/ \E c \in DOMAIN calls : Prep(c)
    \/ \E c \in DOMAIN calls, ok \in BOOLEAN : CsrfGet(c, ok)
    \/ \E c \in DOMAIN calls, tok \in Tokens \cup {0} : CsrfFetch(c, tok)
    \/ \E c \in DOMAIN calls, ok \in BOOLEAN : CsrfSet(c, ok)
    \/ \E c \in DOMAIN calls, st \in Statuses, h \in ResponseHeaders : Fetch(c, st, h)
    \/ \E c \in DOMAIN calls, kind \in FetchFailures : FetchFail(c, kind)
    \/ \E c \in DOMAIN calls, ok \in BOOLEAN : RlStore(c, ok)
    \/ \E c \in DOMAIN calls, ok \in BOOLEAN : ClearDone(c, ok)
    \/ \E c \in DOMAIN calls : ErrBody(c, "none", "statusText")
    \/ \E c \in DOMAIN calls, ok \in BOOLEAN : Body(c, ok)
    \/ \E o \in DOMAIN ops : Finalize(o)
    \/ \E c \in DOMAIN callers : Observe(c)

SpecApi == InitOneLimiter /\ [][NextApi]_vars

\* concurrent writes against a backend that answers 200 or 401 without
\* rate-limit headers
NextWrites ==
    \/ StartWrite(MaxWrites)
    \/ \E c \in DOMAIN calls : Prep(c)
    \/ \E c \in DOMAIN calls, ok \in BOOLEAN : CsrfGet(c, ok)
    \/ \E c \in DOMAIN calls, tok \in Tokens \cup {0} : CsrfFetch(c, tok)
    \/ \E c \in DOMAIN calls, ok \in BOOLEAN : CsrfSet(c, ok)
    \/ \E c \in DOMAIN calls, st \in WriteStatuses : Fetch(c, st, NoHeaders)
    \/ \E c \in DOMAIN calls, ok \in BOOLEAN : ClearDone(c, ok)
    \/ \E c \in DOMAIN calls : ErrBody(c, "none", "statusText")
    \/ \E c \in DOMAIN calls, ok \in BOOLEAN : Body(c, ok)

SpecWrites == InitOneLimiter /\ [][NextWrites]_vars

\* reads against a backend that answers with every status and every kind of
\* error body, without rate-limit headers
NextErrors ==
    \/ \E k \in Keys : ApiRead(k)
    \/ \E c \in DOMAIN calls : Prep(c)
    \/ \E c \in DOMAIN calls, st \in Statuses : Fetch(c, st, NoHeaders)
    \/ \E c \in DOMAIN calls, kind \in FetchFailures : FetchFail(c, kind)
    \/ \E c \in DOMAIN calls, ok \in BOOLEAN : ClearDone(c, ok)
    \/ \E c \in DOMAIN calls, b \in ErrorBodies, t \in StatusTexts : ErrBody(c, b, t)
    \/ \E c \in DOMAIN calls, ok \in BOOLEAN : Body(c, ok)
    \/ \E o \in DOMAIN ops : Finalize(o)
    \/ \E c \in DOMAIN callers : Observe(c)

SpecErrors == InitOneLimiter /\ [][NextErrors]_vars

\* reads against a backend whose responses carry any subset of the rate-limit
\* headers
NextHeaders ==
    \/ \E k \in Keys : ApiRead(k)
    \/ \E c \in DOMAIN calls : Prep(c)
    \/ \E c \in DOMAIN calls, st \in HeaderStatuses, h \in AnyHeaders : Fetch(c, st, h)
    \/ \E c \in DOMAIN calls, ok \in BOOLEAN : RlStore(c, ok)
    \/ \E c \in DOMAIN calls, ok \in BOOLEAN : ClearDone(c, ok)
    \/ \E c \in DOMAIN calls : ErrBody(c, "none", "statusText")
    \/ \E c \in DOMAIN calls, ok \in BOOLEAN : Body(c, ok)
    \/ \E o \in DOMAIN ops : Finalize(o)
    \/ \E c \in DOMAIN callers : Observe(c)

SpecHeaders == InitOneLimiter /\ [][NextHeaders]_vars

\* the caches of projects and categories
NextCache ==
    \/ \E force \in BOOLEAN : StartFetch("projects", 0, force, MaxFetchers)
    \/ \E p \in ProjectIds, force \in BOOLEAN : StartFetch("categories", p, force, MaxFetchers)
    \/ \E f \in DOMAIN fetchers, ok \in BOOLEAN : CacheGet(f, ok)
    \/ \E f \in DOMAIN fetchers, ok \in BOOLEAN : ApiSettle(f, ok)
    \/ \E f \in DOMAIN fetchers, ok \in BOOLEAN : SetGet(f, ok)
    \/ \E f \in DOMAIN fetchers, ok \in BOOLEAN : CacheSet(f, ok)
    \/ Elapse

\* the caches on their own: no CSRF token is stored
InitCache ==
    /\ InitOneLimiter
    /\ storedCsrf = 0

SpecCache == InitCache /\ [][NextCache]_vars

\* concurrent writes and clearAuthState()
NextAuth ==
    \/ StartWrite(MaxWrites)
    \/ \E c \in DOMAIN calls : Prep(c)
    \/ \E c \in DOMAIN calls, ok \in BOOLEAN : CsrfGet(c, ok)
    \/ \E c \in DOMAIN calls, tok \in Tokens \cup {0} : CsrfFetch(c, tok)
    \/ \E c \in DOMAIN calls, ok \in BOOLEAN : CsrfSet(c, ok)
    \/ \E c \in DOMAIN calls, st \in WriteStatuses : Fetch(c, st, NoHeaders)
    \/ \E c \in DOMAIN calls, ok \in BOOLEAN : ClearDone(c, ok)
    \/ \E c \in DOMAIN calls : ErrBody(c, "none", "statusText")
    \/ \E c \in DOMAIN calls, ok \in BOOLEAN : Body(c, ok)
    \/ \E ok \in BOOLEAN : ClearAuthState(ok)

SpecAuth == InitOneLimiter /\ [][NextAuth]_vars

\* ADD_REFERENCE messages and the category refresh they start
NextAddReference ==
    \/ \E hp, hb, hc \in BOOLEAN : OnAddReference(hp, hb, hc)
    \/ \E a \in DOMAIN adds, ok \in BOOLEAN : AddSettle(a, ok)
    \/ \E f \in DOMAIN fetchers, ok \in BOOLEAN : ApiSettle(f, ok)
    \/ \E f \in DOMAIN fetchers, ok \in BOOLEAN : SetGet(f, ok)
    \/ \E f \in DOMAIN fetchers, ok \in BOOLEAN : CacheSet(f, ok)
    \/ \E a \in DOMAIN adds : AddRefreshed(a)

SpecAddReference == InitOneLimiter /\ [][NextAddReference]_vars

\* the debounced function of the content script. Timers that are due fire, the
\* promise func returned settles, and time passes
NextDebounce ==
    \/ DebouncedCall
    \/ \E id \in 1..MaxDebounceCalls : TimerFires(id)
    \/ \E p \in 1..MaxDebounceCalls : FuncSettles(p)
    \/ DebounceElapse

SpecDebounceLive ==
    /\ InitOneLimiter
    /\ [][NextDebounce]_vars
    /\ WF_vars(DebounceElapse)
    /\ WF_vars(\E id \in 1..MaxDebounceCalls : TimerFires(id))
    /\ WF_vars(\E p \in 1..MaxDebounceCalls : FuncSettles(p))

\* the background message listener
NextWorker ==
    \/ \E t \in MessageTypes \cup UnknownTypes : OnMessage(t)
    \/ \E m \in DOMAIN msgs, found \in BOOLEAN : HandlerReturns(m, found)
    \/ \E m \in DOMAIN msgs, e \in ThrownValues : HandlerThrows(m, e)
    \/ \E m \in DOMAIN msgs : Respond(m)

SpecWorker == InitOneLimiter /\ [][NextWorker]_vars

(* ------------------------- RateLimiter: claims ------------------------- *)

StartedIds == {startLog[k].id : k \in DOMAIN startLog}
QueuedIds == {queue[k].id : k \in DOMAIN queue}
\* position of request i in the order of starts, 0 when it has not been started
StartPos(i) == IF i \in StartedIds
               THEN CHOOSE k \in DOMAIN startLog : startLog[k].id = i
               ELSE 0

\* C5: in every reachable state of the RateLimiter 0 <= tokens <= maxTokens
C5_TokenBucketBound == 0 <= tokens /\ tokens <= maxTokens

\* C6 as stated: of maxQueueSize + 1 throttle() calls made before any operation
\* completes, the last one is rejected with the capacity error
C6_OverflowAtNPlusOne ==
    (Len(reqs) > maxQueueSize /\ \A i \in DOMAIN reqs : reqs[i].st # "settled")
        => reqs[maxQueueSize + 1].st = "full"

\* C6 amended: a throttle() call is rejected, at once and without being enqueued,
\* exactly when the wait queue holds maxQueueSize requests at the call; a rejected
\* request is never queued or started; with no reset(), the (maxQueueSize + 1)-th
\* call is rejected exactly when none of the earlier requests has been started
C6_OverflowWhenQueueFull ==
    /\ ev.op = "throttle" =>
          /\ (ev.b = 0) <=> (ev.a >= maxQueueSize)
          /\ (ev.b = 0) <=> (reqs[ev.id].st = "full")
          /\ ev.b = 0 => Len(queue) = ev.a
    /\ \A i \in DOMAIN reqs :
          reqs[i].st = "full" => i \notin QueuedIds /\ i \notin StartedIds
    /\ (resetCount = 0 /\ Len(reqs) > maxQueueSize) =>
          (reqs[maxQueueSize + 1].st = "full" <=> reqs[maxQueueSize + 1].startsBefore = 0)

C6_Witness ==
    /\ ev.op = "throttle" /\ ev.b = 0 /\ ev.id = maxQueueSize + 1
    /\ resetCount = 0
    /\ reqs[maxQueueSize + 1].st = "full"

\* C7 as stated: operations passed to throttle() with priorities 1, 5, 3 in that
\* order are executed in the order 5, 3, 1
C7_PriorityOrderAlways ==
    (plan = PlanCycle /\ {1, 2, 3} \subseteq StartedIds)
        => StartPos(2) < StartPos(3) /\ StartPos(3) < StartPos(1)

\* C7 amended: three operations passed with priorities 1, 5, 3 in that order are
\* executed in the order 5, 3, 1 when the three are in the wait queue together,
\* that is when none of them has been started before the third is enqueued
C7_PriorityOrderWhenQueued ==
    \A i \in 1..(Len(reqs) - 2) :
        ( /\ plan[i] = 1 /\ plan[i + 1] = 5 /\ plan[i + 2] = 3
          /\ {i, i + 1, i + 2} \subseteq StartedIds
          /\ \A j \in {i, i + 1, i + 2} : StartPos(j) > reqs[i + 2].startsBefore )
        => StartPos(i + 1) < StartPos(i + 2) /\ StartPos(i + 2) < StartPos(i)

C7_Witness ==
    /\ plan = PlanCycle
    /\ Len(startLog) = 3
    /\ reqs[3].startsBefore = 0
    /\ <<startLog[1].id, startLog[2].id, startLog[3].id>> = <<2, 3, 1>>

\* C8: of two requests of equal priority the one whose throttle() call came first
\* is started first: the later one is never started while the earlier one waits
C8_StableTieBreak ==
    /\ \A i, j \in DOMAIN startLog :
          (i < j /\ plan[startLog[i].id] = plan[startLog[j].id])
              => startLog[i].id < startLog[j].id
    /\ \A k \in DOMAIN queue : \A j \in DOMAIN startLog :
          queue[k].priority = plan[startLog[j].id] => startLog[j].id < queue[k].id

C8_Witness ==
    /\ plan = PlanTies
    /\ Len(startLog) = 3
    /\ reqs[3].startsBefore = 0
    /\ <<startLog[1].id, startLog[2].id, startLog[3].id>> = <<2, 1, 3>>

\* C9: with no reset(), the operations started in any window of d ms number at
\* most maxTokens + d * requestsPerMinute / 60000
C9_RateEnforcement ==
    \A i, j \in DOMAIN startLog :
        i <= j => (j - i + 1) * MsPerMinute
                    <= maxTokens * MsPerMinute
                       + (startLog[j].at - startLog[i].at) * requestsPerMinute

C1_DedupCollapse ==
    \A c \in DOMAIN callers :
        /\ callers[c].live \subseteq {callers[c].op}
        /\ callers[c].seen # NoOutcome => callers[c].seen = ops[callers[c].op].out

\* C1 (amended): the same, for calls on a key for which clear() has not been
\* called while one of its operations was in flight.
C1_DedupCollapseUnlessCleared ==
    \A c \in DOMAIN callers :
        /\ ~callers[c].tainted => callers[c].live \subseteq {callers[c].op}
        /\ callers[c].seen # NoOutcome => callers[c].seen = ops[callers[c].op].out

\* three calls collapsed onto one unsettled operation and all observed its outcome
C1_Witness ==
    \E c1, c2, c3 \in DOMAIN callers :
        /\ c1 < c2 /\ c2 < c3
        /\ callers[c1].fresh /\ ~callers[c2].fresh /\ ~callers[c3].fresh
        /\ callers[c2].live = {callers[c1].op} /\ callers[c3].live = {callers[c1].op}
        /\ ~callers[c3].tainted
        /\ callers[c1].seen # NoOutcome
        /\ callers[c2].seen = callers[c1].seen /\ callers[c3].seen = callers[c1].seen

(* ----------------------------- api.ts: claims -------------------------- *)

ReadDispatches == {c \in DOMAIN calls : calls[c].method = "GET" /\ calls[c].dispatches > 0}
NetworkCalls(c) == calls[c].dispatches + calls[c].csrfFetches

\* C2: every read whose endpoint request has gone out was admitted by
\* RateLimiter.throttle: there are at least as many throttle() admissions, and
\* limiter dispatches, as reads that reached the network.
C2_ReadsAdmittedByThrottle ==
    /\ Cardinality(ReadDispatches) <= Len(reqs)
    /\ Cardinality(ReadDispatches) <= totalRequests

C11_FreshAfterSettlement ==
    \A c \in DOMAIN callers : callers[c].op \notin callers[c].old

\* C11 (amended): a dedupe(k, supplier) call never gets an operation whose
\* finally callback had run when the call was made, and a call made when every
\* earlier operation for k has run its finally callback invokes supplier again.
C11_FreshAfterFinally ==
    \A c \in DOMAIN callers :
        /\ callers[c].op \notin callers[c].gone
        /\ callers[c].live = {} /\ callers[c].old = callers[c].gone => callers[c].fresh

\* after an operation for k failed and was removed, a later call for k ran the
\* supplier again and observed the new operation's own outcome
C11_Witness ==
    \E c \in DOMAIN callers :
        /\ callers[c].fresh
        /\ callers[c].seen # NoOutcome
        /\ \E o \in callers[c].gone :
               ops[o].out.res = "error" /\ callers[c].seen # ops[o].out

\* the fields of an operation that are the program's own (forgotten is history)
OpState(o) == [key |-> ops[o].key, st |-> ops[o].st, out |-> ops[o].out]

\* C12: a clear() step leaves the map empty (getPendingCount() = 0, isPending(k)
\* false for every k) and touches no operation and no caller; an operation that
\* was in flight at clear() still delivers its own outcome to every caller that
\* had attached to it; the first dedupe(k, supplier) after a clear() invokes
\* supplier anew.
C12_ClearDoesNotCancel ==
    /\ [][clearCount' # clearCount =>
             /\ \A k \in Keys : pending'[k] = 0
             /\ \A o \in DOMAIN ops : OpState(o)' = OpState(o)
             /\ callers' = callers]_vars
    /\ [](\A c \in DOMAIN callers :
             /\ callers[c].seen # NoOutcome => callers[c].seen = ops[callers[c].op].out
             /\ (/\ callers[c].clears > 0
                 /\ \A b \in 1..(c - 1) :
                        callers[b].key = callers[c].key => callers[b].clears < callers[c].clears)
                => callers[c].fresh)

\* an operation in flight at clear() settled afterwards and its caller, attached
\* before clear(), observed its outcome, while the next call for the key had
\* started a second operation next to it
C12_Witness ==
    \E c, n \in DOMAIN callers :
        /\ callers[c].clears = 0 /\ callers[n].clears = 1
        /\ callers[c].key = callers[n].key
        /\ ops[callers[c].op].forgotten
        /\ callers[c].seen = ops[callers[c].op].out /\ callers[c].seen # NoOutcome
        /\ callers[n].fresh /\ callers[c].op \in callers[n].live
        /\ \A k \in Keys : pending[k] = 0

(* -------------------------- api.ts: more claims ------------------------ *)

\* the calls whose endpoint request has gone out at least once
Dispatched == {c \in DOMAIN calls : calls[c].dispatches > 0}
\* the calls that are past lines 113-148 of their first attempt
PastHeaders == {c \in DOMAIN calls :
                  calls[c].pc \notin {"prep", "csrfGet", "csrfFetch", "csrfSet"}
                  \/ calls[c].first # 0}

\* C13: every write gets an apiRequest call of its own, also while an identical
\* write is in flight; a write is not registered with the deduplicator, and each
\* write that has its headers sends an endpoint request of its own.
C13_WritesAreNotMerged ==
    /\ ev.op = "write" => ev.id \in DOMAIN calls
    /\ \A c \in DOMAIN calls : calls[c].method = "POST" => calls[c].op = 0
    /\ PastHeaders \subseteq Dispatched
    /\ \A k \in Keys : pending[k] = 0

\* a second identical write was made while the first was in flight, and both
\* endpoint requests are on the network at the same time
C13_Witness ==
    /\ ev.op = "write" /\ ev.id = 2 /\ ev.a = 1
    /\ calls[1].pc = "fetch" /\ calls[2].pc = "fetch"
    /\ calls[1].method = "POST" /\ calls[2].method = "POST"

\* C14: every endpoint request of a non-GET call that is on the network carries
\* an X-CSRF-Token header.
C14_WritesCarryCsrfHeader ==
    \A c \in DOMAIN calls :
        calls[c].method # "GET" /\ calls[c].pc = "fetch" => calls[c].header # 0

\* the calls that settled on a response (status is the last response's)
Answered == {c \in DOMAIN calls : calls[c].pc = "done" /\ calls[c].status # 0}

Classifiable == {c \in Answered : /\ ~(calls[c].status = 401 /\ calls[c].retryOn401)
                                  /\ calls[c].hdrs[3] # Malformed}

C16_MessageFromBody ==
    \A c \in Answered :
        calls[c].result \in {"AuthenticationError", "ValidationError", "RateLimit", "ApiError"}
        => /\ calls[c].msg # ""
           /\ calls[c].bodyMsg # "none" => calls[c].msg = calls[c].bodyMsg
           /\ calls[c].bodyMsg = "none" /\ calls[c].text # "" => calls[c].msg = calls[c].text

\* C17: a call whose endpoint fetch timed out is settled with NetworkError and
\* the timeout message, and nothing more happens in that call: no dispatch, no
\* token fetch, no retry.
C17_TimeoutIsFinal ==
    /\ [](\A c \in DOMAIN calls :
              calls[c].failed = "timeout" =>
                  /\ calls[c].pc = "done"
                  /\ calls[c].result = "NetworkError"
                  /\ calls[c].msg = "REQUEST_TIMEOUT")
    /\ [][\A c \in DOMAIN calls :
              calls[c].failed = "timeout" => calls'[c] = calls[c]]_vars

\* the first attempt of a read timed out with its retry still unused, and the
\* caller has observed the NetworkError
C17_Witness ==
    \E k \in DOMAIN callers :
        /\ callers[k].seen.res = "NetworkError"
        /\ calls[ops[callers[k].op].call].failed = "timeout"
        /\ calls[ops[callers[k].op].call].dispatches = 1
        /\ calls[ops[callers[k].op].call].retryOn401

\* a response has arrived for call c in this step
Responded(c) == calls[c].pc = "fetch" /\ calls'[c].pc # "fetch" /\ calls'[c].failed = "none"
\* the persisting of the parsed headers of call c has settled in this step
Persisted(c) == calls[c].pc = "rlStore" /\ calls'[c].pc # "rlStore"
Complete(h) == h[1] # Absent /\ h[2] # Absent /\ h[3] # Absent
Triple(h) == [limit |-> h[1], remaining |-> h[2], reset |-> h[3]]
\* what the call does with a response when there is no rate-limit information
Unaffected(c) ==
    calls'[c].pc = IF calls'[c].status = 401 /\ calls[c].retryOn401 THEN "clear"
                   ELSE IF calls'[c].status = 200 THEN "body" ELSE "errBody"
LimiterUntouched == UNCHANGED <<tokens, limiterRest>>

C19_ListenerNeverRejects ==
    \A m \in DOMAIN msgs :
        /\ msgs[m].out.settled # "rejected"
        /\ msgs[m].hm.settled # "rejected"
        /\ msgs[m].pc = "responded" =>
               /\ msgs[m].out.settled = "resolved"
               /\ msgs[m].out.value.success \in BOOLEAN
               /\ msgs[m].type \notin MessageTypes \/ msgs[m].failed =>
                      /\ msgs[m].out.value.success = FALSE
                      /\ msgs[m].out.value.hasError
                      /\ msgs[m].out.value.error # EmptyString

\* a message of unknown type and a message whose handler threw a non-Error value
\* have both been answered with a failure response
C19_Witness ==
    \E m, n \in DOMAIN msgs :
        /\ msgs[m].type \in UnknownTypes /\ msgs[m].pc = "responded"
        /\ msgs[n].type = "GET_PROJECTS" /\ msgs[n].failed /\ msgs[n].pc = "responded"
        /\ ~msgs[m].out.value.success /\ ~msgs[n].out.value.success
        /\ msgs[n].out.value.error = <<"GET_PROJECTS", ": ", "An unknown error occurred">>

(* ----------------------- RateLimiter: more claims ---------------------- *)

\* C20: at most one draining loop is inside processQueue at any time, and a
\* throttle() call accepted while one is active only appends its request to the
\* queue: it starts no operation and no second loop.
C20_SingleDrainer ==
    /\ [](Cardinality(ActiveDrainers) <= 1)
    /\ [](processing <=> ActiveDrainers # {})
    /\ [][(Len(reqs') = Len(reqs) + 1 /\ ActiveDrainers # {} /\ ~QueueIsFull(queue, maxQueueSize))
            => /\ Len(queue') = Len(queue) + 1
               /\ queue'[Len(queue')].id = Len(reqs')
               /\ UNCHANGED <<drainers, tokens, lastRefill, startLog, processing>>]_vars

\* a throttle() call was accepted while the drainer was executing an operation:
\* its request waits in the queue and the same single drainer is still active
C20_Witness ==
    /\ ev.op = "throttle" /\ ev.b = 1 /\ ev.c = 1
    /\ ev.id \in QueuedIds
    /\ \E d \in ActiveDrainers : drainers[d].pc = "exec"
    /\ Cardinality(ActiveDrainers) = 1

\* the activations of processQueue that are awaiting request.fn()
Executing == {d \in 1..MaxDrainers : drainers[d].pc = "exec"}

\* C21: in every reachable state, reset() calls included, at most one operation
\* admitted through throttle() is executing.
C21_SerializedExecution == Cardinality(Executing) <= 1

\* a step in which a drainer shifts one request off the queue and starts it
Starts == Len(startLog') = Len(startLog) + 1

\* C22: a drainer starts an operation only when the token count at that instant
\* (after the refill of the same loop iteration, if the step begins with one) is
\* at least 1, and the start takes exactly one token from it.
C22_TokenAvailableAtDispatch ==
    [][Starts =>
          \E tok \in {tokens, RefillTokens(tokens, lastRefill, now)} :
              tok >= 1 /\ tokens' = tok - 1]_vars

\* the request started last
LastStarted == startLog[Len(startLog)].id

\* C23: whenever a drainer removes a request from the queue to start it, no
\* request in the queue at that instant has a strictly higher priority: neither
\* a request left in the queue by the step nor one the same step starts later.
C23_PrioritySafety ==
    [][\A k \in (Len(startLog) + 1)..Len(startLog') :
          /\ \A j \in DOMAIN queue' : queue'[j].priority <= plan[startLog'[k].id]
          /\ \A j \in (k + 1)..Len(startLog') :
                plan[startLog'[j].id] <= plan[startLog'[k].id]]_vars

\* a request was started ahead of one that was enqueued before it with a lower
\* priority and that is still waiting
C23_Witness ==
    /\ Len(startLog) >= 1
    /\ LastStarted \notin QueuedIds
    /\ reqs[LastStarted].st = "running"
    /\ \E k \in DOMAIN queue :
          /\ queue[k].id < LastStarted
          /\ queue[k].priority < plan[LastStarted]

\* the throttle() calls that were accepted
Accepted == {i \in DOMAIN reqs : reqs[i].st # "full"}

\* C24: with no reset(), operations that settle and finitely many arrivals, every
\* request accepted by throttle() is eventually started and its caller's promise
\* eventually settled (again and again, every request accepted so far has been
\* started and settled), and the processing flag is cleared once the queue is
\* drained: again and again it is clear with the queue empty, and it is never
\* clear while a request waits.
C24_QueueDrainLiveness ==
    /\ []<>(\A i \in Accepted : i \in StartedIds /\ reqs[i].st = "settled")
    /\ []<>(~processing /\ queue = <<>>)
    /\ [](~processing => queue = <<>>)

\* three requests were accepted, at least one of them waited in the queue for
\* more than the delayed threshold, all were settled and the drainer has left
C24_Witness ==
    /\ Len(reqs) = MaxRequests
    /\ \A i \in DOMAIN reqs : reqs[i].st = "settled"
    /\ delayedRequests >= 1
    /\ ~processing /\ queue = <<>> /\ ActiveDrainers = {}

\* the requests a reset() dropped from the queue: their promise is pending and
\* no queue entry holds their resolve and reject
Abandoned == {i \in DOMAIN reqs : reqs[i].st = "queued" /\ i \notin QueuedIds}

\* the requests whose operation is running
Running == {i \in DOMAIN reqs : reqs[i].st = "running"}

\* C25: reset() empties the queue and sets tokens to maxTokens; a request that
\* was in the queue at the reset() is never started and its caller's promise
\* stays pending for ever; the operation a drainer had started keeps its
\* continuation and settles its own caller when it settles.
C25_ResetAbandonsQueued ==
    /\ [][resetCount' = resetCount + 1 =>
             /\ queue' = <<>> /\ tokens' = maxTokens
             /\ Abandoned' = Abandoned \cup QueuedIds
             /\ Running' = Running /\ drainers' = drainers]_vars
    /\ [][\A i \in Abandoned : i \in Abandoned' /\ i \notin StartedIds']_vars
    /\ [](resetCount = 0 => Abandoned = {})
    /\ [](\A i \in Running : \E d \in Executing : drainers[d].req = i)
    /\ [](ev.op = "settle" => reqs[ev.id].st = "settled" /\ ev.a = ev.b)

\* a reset() dropped a queued request while an operation was running: that
\* operation has just settled its caller, the dropped request is still pending
C25_Witness ==
    /\ resetCount = 1
    /\ ev.op = "settle" /\ reqs[ev.id].st = "settled"
    /\ \E i \in Abandoned : StartPos(ev.id) <= reqs[i].startsBefore
    /\ tokens = maxTokens

\* C26: with minRequestDelay = m > 0, any two successive operation starts are at
\* least m ms apart.
C26_MinimumSpacing ==
    minRequestDelay > 0 =>
        \A k \in 1..(Len(startLog) - 1) :
            startLog[k + 1].at - startLog[k].at >= minRequestDelay

\* a step in which processQueue reaches line 120 and calls refillTokens(): a
\* throttle() that starts a drainer, a token timer firing, or an operation
\* settling with requests waiting
RefillRuns ==
    \/ ev'.op = "throttle" /\ ev'.b = 1 /\ ~processing
    \/ ev'.op = "wakeToken" /\ queue # <<>>
    \/ ev'.op = "settle" /\ queue # <<>>

\* C27: a refill at time now computes tokensToAdd = (now - lastRefill) *
\* requestsPerMinute / 60000; when tokensToAdd >= 1 it sets tokens to
\* min(maxTokens, tokens + floor(tokensToAdd)) and lastRefill to now, otherwise
\* it leaves both unchanged (the step takes one more token if, after the refill,
\* it goes on to start an operation).
C27_RefillRule ==
    [][RefillRuns =>
          LET elapsed == now - lastRefill
              taken == Len(startLog') - Len(startLog)
          IN  /\ elapsed * requestsPerMinute >= MsPerMinute =>
                    \E n \in 1..(MaxTicks + MaxRunTicks + 1) :
                        /\ n * MsPerMinute <= elapsed * requestsPerMinute
                        /\ elapsed * requestsPerMinute < (n + 1) * MsPerMinute
                        /\ tokens' + taken = Min(maxTokens, tokens + n)
                        /\ lastRefill' = now
              /\ elapsed * requestsPerMinute < MsPerMinute =>
                    /\ tokens' + taken = tokens
                    /\ lastRefill' = lastRefill]_vars

\* the bucket was emptied at construction time and a request arriving one and a
\* half token periods later found one token (the floor of 1.5) and took it
C27_Witness ==
    /\ resetCount = 0 /\ updateCount = 0
    /\ lastRefill = StartTime + 3 * TickMs
    /\ now = lastRefill
    /\ Len(startLog) = 3 /\ startLog[3].at = now /\ startLog[2].at = StartTime
    /\ tokens = 0

\* the throttle() calls rejected with the capacity error
Rejected == {i \in DOMAIN reqs : reqs[i].st = "full"}

\* C28: the wait queue never holds more than maxQueueSize requests, and a
\* request rejected for capacity is not in the queue, is never started and stays
\* rejected.
C28_QueueBound ==
    /\ [](Len(queue) <= maxQueueSize)
    /\ [](\A i \in Rejected : i \notin QueuedIds /\ i \notin StartedIds)
    /\ [][Rejected \subseteq Rejected']_vars

\* a call was rejected with the queue at capacity; since then the drainer has
\* started one of the requests that were waiting
C28_Witness ==
    /\ \E i \in Rejected : Len(startLog) > reqs[i].startsBefore
    /\ Len(queue) = maxQueueSize - 1
    /\ resetCount = 0

\* the requests whose caller's promise is settled
SettledCallers == {i \in DOMAIN reqs : reqs[i].st = "settled"}

\* the requests whose operation failed in the step: the one whose promise
\* rejected and the one that threw when called
FailedInStep == (IF ev'.op = "settle" /\ ev'.a = 0 THEN {ev'.id} ELSE {})
                    \cup (IF ev'.t # 0 THEN {ev'.t} ELSE {})

\* C29: the promise throttle(op) returned resolves when op resolved and rejects
\* when op rejected or threw, with what op settled with; a failure settles only
\* the caller of the failed operation, and the drainer then goes on: with
\* requests still waiting it is not left idle.
C29_LimiterPassThrough ==
    /\ [](ev.op = "settle" => ev.b = ev.a /\ ev.id \in SettledCallers)
    /\ [](ev.t # 0 => ev.tb = 0 /\ ev.t \in SettledCallers)
    /\ [][FailedInStep # {} =>
             /\ SettledCallers' \ SettledCallers
                    \subseteq FailedInStep \cup {ev'.id}
             /\ queue' # <<>> => processing' /\ ActiveDrainers' # {}]_vars

\* an operation rejected and its caller was rejected; in the same step the
\* drainer called the next operation, which threw and rejected its own caller,
\* and started the one after it, which is running
C29_Witness ==
    /\ ev.op = "settle" /\ ev.a = 0 /\ ev.b = 0
    /\ ev.t # 0 /\ ev.tb = 0 /\ ev.t # ev.id
    /\ \E d \in Executing : drainers[d].req \notin {ev.id, ev.t}

(* ------------------- RequestDeduplicator: observation ------------------ *)

\* the dedupe() calls whose promise has settled
Observed == {c \in DOMAIN callers : callers[c].seen # NoOutcome}

\* C30: when the operation registered for a key settles, its entry is removed
\* from the pending map before any caller attached to it observes the outcome:
\* a caller's promise settles only after the finally callback of its operation
\* has run, when the map no longer holds that operation.
C30_RemovalBeforeObservation ==
    /\ [](\A c \in Observed :
             /\ ops[callers[c].op].st = "finalized"
             /\ pending[callers[c].key] # callers[c].op)
    /\ [](\A o \in DOMAIN ops :
             ops[o].st = "finalized" => pending[ops[o].key] # o)
    /\ [][\A c \in Observed' \ Observed :
             /\ ops[callers[c].op].st = "finalized"
             /\ pending[callers[c].key] # callers[c].op]_vars

\* two callers shared one operation, never lost by a clear(): both have observed
\* its outcome and the key has no entry
C30_Witness ==
    \E c1, c2 \in Observed :
        /\ callers[c1].fresh /\ ~callers[c2].fresh
        /\ callers[c1].op = callers[c2].op
        /\ ~ops[callers[c1].op].forgotten
        /\ pending[callers[c1].key] = 0

\* C35: the entry a dedupe() call registered for a key leaves the pending map
\* only through clear() or through the finally callback of the operation that
\* call started; so a dedupe() call made after the last clear() finds no
\* unsettled operation registered for its key since that clear() unless it joins it.
C35_EntryRemovedByOwnOperation ==
    /\ [][\A k \in Keys :
             (pending[k] # 0 /\ pending'[k] # pending[k]) =>
                 \/ clearCount' = clearCount + 1
                 \/ /\ ops[pending[k]].st = "settled"
                    /\ ops'[pending[k]].st = "finalized"]_vars
    /\ [](\A c \in DOMAIN callers :
             callers[c].fresh =>
                 \A o \in callers[c].live :
                     o = callers[c].op \/ ops[o].forgotten)

(* ----------------------- apiRequest: classification --------------------- *)

\* C33: only a response with a 2xx status has its rate-limit headers forwarded:
\* a step in which an attempt hands the header triple to the limiter, and a step
\* that persists the triple, belong to a response whose status is 2xx, and the
\* step that receives any other response leaves the limiter's token count alone.
C33_HeadersForwardedOnSuccessOnly ==
    [][\A c \in DOMAIN calls :
          /\ (calls[c].pc = "fetch" /\ calls'[c].pc = "rlStore")
                => ResponseOk(calls'[c].status)
          /\ (calls[c].pc = "fetch" /\ calls'[c].pc # "fetch"
                /\ ~ResponseOk(calls'[c].status)) => tokens' = tokens
          /\ (calls[c].pc = "rlStore" /\ rateLimitInfo' # rateLimitInfo)
                => ResponseOk(calls[c].status)]_vars

\* ExtensionError and its subclasses, by the name the model gives each
ExtensionErrors == {"UnknownError", "NetworkError", "AuthenticationError",
                    "ValidationError", "RateLimit", "ApiError"}

\* C32: a settled apiRequest call has resolved or has rejected with an
\* ExtensionError or one of its subclasses, whichever step failed; a rejection of
\* the fetch that is neither a timeout nor a fetch TypeError, a failed token
\* clearing and a body that does not decode surface as the generic ExtensionError.
C32_TypedRejectionsOnly ==
    \A c \in DOMAIN calls :
        calls[c].pc = "done" =>
            /\ calls[c].result \in {"ok"} \cup ExtensionErrors
            /\ calls[c].failed = "other" => calls[c].result = "UnknownError"
            /\ (ResponseOk(calls[c].status) /\ ~calls[c].decoded /\ calls[c].failed = "none")
                 => calls[c].result = "UnknownError"

\* a 2xx body failed to decode; a fetch rejected with an unrecognised error
C32_Witness ==
    \E c \in DOMAIN calls :
        /\ calls[c].pc = "done"
        /\ calls[c].result = "UnknownError"
        /\ \/ ResponseOk(calls[c].status) /\ ~calls[c].decoded
           \/ calls[c].failed = "other"

(* ------------------------- api.ts: the CSRF token ---------------------- *)

\* the step in which the retry of state-mutating call c is sent
RetrySent(c) ==
    /\ calls[c].method # "GET" /\ calls[c].first = 401
    /\ calls[c].dispatches = 1 /\ calls'[c].dispatches = 2

\* C31: the retry that follows a first-attempt 401 of a state-mutating call does
\* not carry the token that was cached in memory when the 401 arrived, whatever
\* other calls do meanwhile. (A token the backend issues again cannot be told
\* from a re-fetched one, so the formula speaks of cached tokens the backend no
\* longer issues.)
C31_RetryCarriesNoStaleToken ==
    [][\A c \in DOMAIN calls :
          (RetrySent(c) /\ calls[c].cached \notin Tokens \cup {0})
              => calls'[c].header # calls[c].cached]_vars

\* no call is inside getCsrfToken, fetchCsrfToken or clearCsrfToken
TokenIdle == \A c \in DOMAIN calls :
                 calls[c].pc \notin {"csrfGet", "csrfFetch", "csrfSet", "clear"}

\* C37: whenever no token operation is in progress, a token held in memory is
\* the token held in storage; and after clearAuthState() removed the stored
\* token, no state-mutating request made later carries the token that was in
\* memory before the removal (a token the backend no longer issues).
C37_CsrfCacheConsistent ==
    /\ TokenIdle /\ csrfToken # 0 => csrfToken = storedCsrf
    /\ \A c \in DOMAIN calls :
           (/\ c > authCleared.callsBefore /\ authCleared.revoked \notin Tokens \cup {0}
            /\ calls[c].method # "GET" /\ calls[c].pc = "fetch")
           => calls[c].header # authCleared.revoked

(* --------------------- handleAddReference: claims ---------------------- *)

\* C38: when the response to an ADD_REFERENCE message has success = false, the
\* backend addReference call was not made or it failed: a reference the backend
\* added is not answered with a failure, also when the category refresh fails.
C38_FailureMeansNothingAdded ==
    \A a \in DOMAIN adds :
        (adds[a].pc = "done" /\ ~adds[a].out.value.success) =>
            ~adds[a].called \/ ~adds[a].added

(* --------------------------- the caches: claims ------------------------ *)

\* the fetchers that fetched the categories of a project and stored them
Stored == {f \in DOMAIN fetchers :
             fetchers[f].kind = "categories" /\ fetchers[f].result = "fetched"}

\* C39: when two calls have stored the categories of two different projects,
\* the categories cache holds an entry for both projects, however their storage
\* reads and writes were interleaved.
C39_NoLostCacheUpdate ==
    \A f, g \in Stored :
        fetchers[f].project # fetchers[g].project =>
            /\ cachedCategories[fetchers[f].project] # NoEntry
            /\ cachedCategories[fetchers[g].project] # NoEntry

\* the entry of the cache a fetcher is about
Own(f) == IF fetchers[f].kind = "projects" THEN cachedProjects
          ELSE cachedCategories[fetchers[f].project]
\* the entry is present and its age is at most the timeout
Fresh(e) == e # NoEntry /\ now - e.timestamp <= CacheTimeout
\* the step in which fetcher f leaves the await at pc
Leaves(f, pc) == fetchers[f].pc = pc /\ fetchers'[f].pc # pc

\* C34 (as stated): without forceRefresh a present entry of age at most the
\* timeout is returned without an API read; otherwise exactly one API read is
\* made, after its success the cache holds the fetched value, and after its
\* failure the cache is as it was.
C34_CachePolicy ==
    [][/\ \A f \in DOMAIN fetchers :
             /\ Leaves(f, "cacheGet") =>
                    IF Fresh(Own(f))
                    THEN /\ fetchers'[f].result = "cached"
                         /\ fetchers'[f].ret = Own(f).value
                         /\ fetchers'[f].reads = 0
                    ELSE fetchers'[f].pc = "api" /\ fetchers'[f].reads = 1
             /\ (fetchers[f].pc # "done" /\ fetchers'[f].pc = "done"
                   /\ fetchers[f].value # 0) => Own(f)'.value = fetchers[f].value
             /\ (Leaves(f, "api") /\ fetchers'[f].pc = "done") =>
                    /\ fetchers'[f].result = "error"
                    /\ UNCHANGED <<cachedProjects, cachedCategories>>
       /\ \A f \in DOMAIN fetchers' :
                /\ fetchers'[f].force => fetchers'[f].reads = 1
                /\ fetchers'[f].reads <= 1]_vars

\* C34 (amended): the same when the storage calls succeed. A storage read that
\* rejects counts as a miss: one API read is made although the entry is fresh.
\* The timestamp written is the time at which setCached... built the entry, and
\* when a storage call of setCached... rejects, the call rejects and the cache
\* is as it was although the API read succeeded.
C34_CachePolicyWhenStorageWorks ==
    [][/\ \A f \in DOMAIN fetchers :
             /\ Leaves(f, "cacheGet") =>
                    IF Fresh(Own(f)) /\ ~fetchers'[f].readFailed
                    THEN /\ fetchers'[f].result = "cached"
                         /\ fetchers'[f].ret = Own(f).value
                         /\ fetchers'[f].reads = 0
                    ELSE fetchers'[f].pc = "api" /\ fetchers'[f].reads = 1
             /\ (fetchers[f].pc # "set" /\ fetchers'[f].pc = "set") =>
                    fetchers'[f].stamp = now /\ fetchers'[f].value = f
             /\ Leaves(f, "set") =>
                    IF fetchers'[f].result = "fetched"
                    THEN /\ Own(f)' = Entry(fetchers[f].value, fetchers[f].stamp)
                         /\ fetchers'[f].ret = fetchers[f].value
                    ELSE /\ fetchers'[f].result = "error"
                         /\ UNCHANGED <<cachedProjects, cachedCategories>>
             /\ (Leaves(f, "api") \/ Leaves(f, "setGet")) =>
                    /\ fetchers'[f].pc = "done" => fetchers'[f].result = "error"
                    /\ UNCHANGED <<cachedProjects, cachedCategories>>
       /\ \A f \in DOMAIN fetchers' :
                /\ fetchers'[f].force => fetchers'[f].reads = 1
                /\ fetchers'[f].reads <= 1
                /\ fetchers'[f].result = "cached"
                      => ~fetchers'[f].force /\ fetchers'[f].reads = 0
                /\ fetchers'[f].result = "fetched" => fetchers'[f].reads = 1]_vars

\* one call fetched and stored a value, and a later call without forceRefresh
\* was answered from the cache when the entry's age was exactly the timeout
C34_Witness ==
    \E f, g \in DOMAIN fetchers :
        /\ fetchers[f].result = "fetched"
        /\ fetchers[g].result = "cached" /\ fetchers[g].ret = fetchers[f].ret
        /\ Own(g).value = fetchers[f].ret
        /\ now - Own(g).timestamp = CacheTimeout

(* --------------------------- debounceAsync: claims --------------------- *)

\* C36: on every burst of calls of the debounced function, two calls less than
\* wait ms apart included, func is invoked after the calls and the promise each
\* call returned settles.
C36_DebounceLiveness ==
    \A i \in 1..MaxDebounceCalls :
        (Len(debouncedCalls) >= i) ~>
            (Len(debouncedCalls) >= i /\ promises[debouncedCalls[i].promise] = "settled")

====
